---- MODULE Spec2Model ----
(***************************************************************************)
(* Reconnaissance toolkit: the two-phase port scan (modules/port_scanner)  *)
(* and the protocol probes (modules/*_enum), as state machines.            *)
(***************************************************************************)
EXTENDS Integers, Sequences, FiniteSets, TLC

VARIABLES
    pc,               \* position of scan_target
    nm,               \* self.nm: whether the last scan result lists the target
    engine_calls,     \* every self.nm.scan(...) invocation, in order
    quick_results,    \* scan_target's local quick_results
    version_results,  \* scan_target's local version_results
    returned,         \* the value scan_target returned
    probe,            \* the probe invocation: family, port, reachability of target:port
    ppc,              \* position of the probe's enumerate()
    results,          \* the probe's results dictionary
    escaped,          \* the exception that left enumerate(), "none" if none did
    ops,              \* the socket, library and tool operations the probe made, in order
    socks,            \* sockets the probe's own code opened and has not closed
    dpc,              \* position of the dispatch stage
    cursor,           \* index of the port record the dispatch stage is at
    report,           \* the aggregate report: the port list and the probe entries
    run_call,         \* what the tool of a direct run_command call does
    run_result,       \* what that run_command call returned
    other,            \* a second probe invocation, while it is not the one running
    gpc,              \* position of generate_reports
    scan_data,        \* the scan data generate_reports is given
    files,            \* the report files on disk, by format
    report_paths,     \* generate_reports' local results: format -> path
    gen_ops,          \* the file-system operations generate_reports made, in order
    gen_escaped,      \* the exception that left generate_reports, "none" if none did
    tool_call,        \* a tool helper's call: the tool and what the tool does
    tool_output       \* what the probe result holds for that tool after the call

scanVars == <<pc, nm, engine_calls, quick_results, version_results, returned>>

probeVars == <<probe, ppc, results, escaped, ops, socks>>

dispatchVars == <<dpc, cursor, report>>

runVars == <<run_call, run_result>>

pairVars == <<other>>

genVars == <<gpc, scan_data, files, report_paths, gen_ops, gen_escaped>>

toolVars == <<tool_call, tool_output>>

vars == <<scanVars, probeVars, dispatchVars, runVars, pairVars, genVars, toolVars>>

(***************************************************************************)
(* Bounds of the model.                                                    *)
(***************************************************************************)
\* most port entries one engine run reports
MaxEntries == 3
\* most lines smbclient prints
MaxLines == 3

(***************************************************************************)
(* The scan engine (nmap, through the python-nmap library).                *)
(***************************************************************************)
PortNumbers == {22, 80, 3306}
Protocols == <<"tcp", "udp">>        \* host.all_protocols() is sorted
States == {"open", "closed", "filtered"}
\* a result variable that holds no dictionary yet
None == [none |-> TRUE]

\* One entry of host[proto]: the key (port, proto) and its port_info.
QuickEntries ==
    [port : PortNumbers, protocol : {"tcp", "udp"}, state : States, script : {FALSE}]

DeepEntries(ports) ==
    [port : ports, protocol : {"tcp"}, state : States, script : BOOLEAN]

DistinctKeys(s) ==
    \A i, j \in 1..Len(s) :
        (s[i].port = s[j].port /\ s[i].protocol = s[j].protocol) => i = j

\* What a run of the engine leaves in self.nm: whether the target is among
\* all_hosts(), its port entries in the engine's native order (dictionary
\* keys are unique per protocol), and `bad`, the index of an entry whose
\* port_info cannot be read (0: every entry is well formed).
EngineOutput(s, b) == [scanned |-> TRUE, entries |-> s, bad |-> b]

NoHost == [scanned |-> FALSE, entries |-> <<>>, bad |-> 0]

(***************************************************************************)
(* PortScanner._parse_scan_results                                         *)
(***************************************************************************)
\* list.sort(key=lambda x: x['port']): stable, ascending by port number.
RECURSIVE InsertByPort(_, _)
InsertByPort(sorted, x) ==
    IF sorted = <<>> THEN <<x>>
    ELSE IF sorted[Len(sorted)]["port"] <= x["port"] THEN Append(sorted, x)
    ELSE Append(InsertByPort(SubSeq(sorted, 1, Len(sorted) - 1), x), sorted[Len(sorted)])

RECURSIVE SortByPort(_)
SortByPort(s) ==
    IF s = <<>> THEN <<>>
    ELSE InsertByPort(SortByPort(SubSeq(s, 1, Len(s) - 1)), s[Len(s)])

\* a port_data that gets 'scripts' in every detailed parse
PortData_ScriptsAlways(e, detailed) ==
    IF detailed
    THEN [port |-> e.port, protocol |-> e.protocol, state |-> e.state, scripts |-> "script-output"]
    ELSE [port |-> e.port, protocol |-> e.protocol, state |-> e.state]

\* port_data of one entry (lines 139-162); 'scripts' only when detailed and
\* the engine reported script output for the port.
PortData(e, detailed) ==
    IF detailed /\ e.script
    THEN [port |-> e.port, protocol |-> e.protocol, state |-> e.state, scripts |-> "script-output"]
    ELSE [port |-> e.port, protocol |-> e.protocol, state |-> e.state]

\* The order the two nested loops visit the entries: protocol by protocol
\* (all_protocols() order), inside a protocol the engine's native order.
RECURSIVE VisitOrder(_, _)
VisitOrder(entries, protos) ==
    IF protos = <<>> THEN <<>>
    ELSE SelectSeq(entries, LAMBDA e : e.protocol = Head(protos))
         \o VisitOrder(entries, Tail(protos))

\* Index in the visit order of the entry whose read raises (0: none).
RaisesAt(out) ==
    IF out.bad \in 1..Len(out.entries) THEN out.bad ELSE 0

ParsedPorts(out, detailed) ==
    LET visit == VisitOrder(out.entries, Protocols)
        k == RaisesAt(out)
    IN  IF k = 0
        THEN SortByPort([i \in 1..Len(visit) |-> PortData(visit[i], detailed)])
        ELSE \* the except branch: the sort is skipped, the records appended
             \* before the failure stay in the list
             [i \in 1..(k - 1) |-> PortData(visit[i], detailed)]

ParseScanResults(out, detailed) ==
    IF ~out.scanned
    THEN [target |-> "target", ports |-> <<>>]
    ELSE [target |-> "target", ports |-> ParsedPorts(out, detailed)]

\* the dictionary quick_scan / version_scan return when nm.scan raises
ScanError == [error |-> "scan failed", ports |-> <<>>]

HasError(r) == "error" \in DOMAIN r

(***************************************************************************)
(* scan_target                                                             *)
(***************************************************************************)
\* a filter that keeps every port that is not closed
OpenPorts_NotClosed(res) ==
    LET ps == res.ports
        idx == {i \in 1..Len(ps) : ps[i].state # "closed"}
    IN  [n \in 1..Cardinality(idx) |->
            ps[CHOOSE i \in idx : Cardinality({j \in idx : j < i}) = n - 1].port]

\* lines 201-204
OpenPorts(res) ==
    LET ps == res.ports
        idx == {i \in 1..Len(ps) : ps[i].state = "open"}
    IN  [n \in 1..Cardinality(idx) |->
            ps[CHOOSE i \in idx : Cardinality({j \in idx : j < i}) = n - 1].port]

Range(s) == {s[i] : i \in 1..Len(s)}

ScanInit ==
    /\ pc = "start"
    /\ nm = "unset"
    /\ engine_calls = <<>>
    /\ quick_results = None
    /\ version_results = None
    /\ returned = None

\* quick_scan, lines 39-50: the engine is invoked with the fast profile.
QuickScanStart ==
    /\ pc = "start"
    /\ engine_calls' = Append(engine_calls, [profile |-> "quick", ports |-> <<>>, status |-> "running", scripts |-> {}])
    /\ pc' = "p1_running"
    /\ UNCHANGED <<nm, quick_results, version_results, returned, probeVars, dispatchVars, runVars, pairVars, genVars, toolVars>>

\* the last invocation ends: "raised" (nm.scan raised), "ok", "no_host"
\* (the target is not among all_hosts()) or "unreadable" (reading an entry
\* raised inside _parse_scan_results)
MarkReturned(calls, outcome) ==
    [calls EXCEPT ![Len(calls)].status = outcome]

Outcome(out) ==
    IF ~out.scanned THEN "no_host"
    ELSE IF RaisesAt(out) # 0 THEN "unreadable"
    ELSE "ok"

\* the ports for which the engine's output holds script output
ScriptPorts(out) == {out.entries[i].port : i \in {j \in 1..Len(out.entries) : out.entries[j].script}}

\* the last invocation ends with the outcome of out, and the log keeps the
\* ports for which the engine reported script output
Returned(calls, out) ==
    [MarkReturned(calls, Outcome(out)) EXCEPT ![Len(calls)].scripts = ScriptPorts(out)]

\* quick_scan, lines 59-64: nm.scan raised.
QuickScanFails ==
    /\ pc = "p1_running"
    /\ engine_calls' = MarkReturned(engine_calls, "raised")
    /\ quick_results' = ScanError
    /\ pc' = "p1_done"
    /\ UNCHANGED <<nm, version_results, returned, probeVars, dispatchVars, runVars, pairVars, genVars, toolVars>>

\* quick_scan, lines 50-57: nm.scan returned and its result is parsed.
QuickScanReturns ==
    /\ pc = "p1_running"
    /\ \/ \E k \in 0..MaxEntries : \E s \in [1..k -> QuickEntries] :
             /\ DistinctKeys(s)
             /\ \E b \in 0..k :
                   /\ quick_results' = ParseScanResults(EngineOutput(s, b), FALSE)
                   /\ engine_calls' = Returned(engine_calls, EngineOutput(s, b))
             /\ nm' = "host"
       \/ /\ quick_results' = ParseScanResults(NoHost, FALSE)
          /\ engine_calls' = Returned(engine_calls, NoHost)
          /\ nm' = "no_host"
    /\ pc' = "p1_done"
    /\ UNCHANGED <<version_results, returned, probeVars, dispatchVars, runVars, pairVars, genVars, toolVars>>

\* a check of the port list instead of the open ports
AfterQuick_AnyPort(res) ==
    IF "error" \in DOMAIN res THEN "return"
    ELSE IF res.ports = <<>> THEN "return"
    ELSE "phase2"

\* what scan_target does with quick_results, lines 197-208:
\* "return" the quick result, or "phase2".
AfterQuick(res) ==
    IF HasError(res) THEN "return"
    ELSE IF OpenPorts(res) = <<>> THEN "return"
    ELSE "phase2"

ScanTargetReturnsQuick ==
    /\ pc = "p1_done"
    /\ AfterQuick(quick_results) = "return"
    /\ returned' = quick_results
    /\ pc' = "done"
    /\ UNCHANGED <<nm, engine_calls, quick_results, version_results, probeVars, dispatchVars, runVars, pairVars, genVars, toolVars>>

\* version_scan, lines 76-92, called with open_ports (line 212).
VersionScanStart ==
    /\ pc = "p1_done"
    /\ AfterQuick(quick_results) = "phase2"
    /\ LET ports == OpenPorts(quick_results)
       IN  IF ports = <<>>
           THEN /\ version_results' = [ports |-> <<>>]
                /\ pc' = "p2_done"
                /\ UNCHANGED engine_calls
           ELSE /\ engine_calls' = Append(engine_calls,
                      [profile |-> "deep", ports |-> ports, status |-> "running",
                       scripts |-> {}])
                /\ pc' = "p2_running"
                /\ UNCHANGED version_results
    /\ UNCHANGED <<nm, quick_results, returned, probeVars, dispatchVars, runVars, pairVars, genVars, toolVars>>

\* version_scan, lines 101-106: nm.scan raised.
VersionScanFails ==
    /\ pc = "p2_running"
    /\ engine_calls' = MarkReturned(engine_calls, "raised")
    /\ version_results' = ScanError
    /\ pc' = "p2_done"
    /\ UNCHANGED <<nm, quick_results, returned, probeVars, dispatchVars, runVars, pairVars, genVars, toolVars>>

\* version_scan, lines 92-99: nm.scan returned and its result is parsed; the
\* engine reports on the ports it was given.
VersionScanReturns ==
    /\ pc = "p2_running"
    /\ \/ \E k \in 0..MaxEntries :
             \E s \in [1..k -> DeepEntries(Range(engine_calls[Len(engine_calls)].ports))] :
                /\ DistinctKeys(s)
                /\ \E b \in 0..k :
                      /\ version_results' = ParseScanResults(EngineOutput(s, b), TRUE)
                      /\ engine_calls' = Returned(engine_calls, EngineOutput(s, b))
                /\ nm' = "host"
       \/ /\ version_results' = ParseScanResults(NoHost, TRUE)
          /\ engine_calls' = Returned(engine_calls, NoHost)
          /\ nm' = "no_host"
    /\ pc' = "p2_done"
    /\ UNCHANGED <<quick_results, returned, probeVars, dispatchVars, runVars, pairVars, genVars, toolVars>>

\* a version scan that is run again when it failed
ScanTargetReturnsVersion_Retry ==
    /\ pc = "p2_done"
    /\ IF "error" \in DOMAIN version_results
       THEN /\ pc' = "p1_done"
            /\ UNCHANGED returned
       ELSE /\ returned' = version_results
            /\ pc' = "done"
    /\ UNCHANGED <<nm, engine_calls, quick_results, version_results, probeVars, dispatchVars, runVars, pairVars, genVars, toolVars>>

\* scan_target, line 214.
ScanTargetReturnsVersion ==
    /\ pc = "p2_done"
    /\ returned' = version_results
    /\ pc' = "done"
    /\ UNCHANGED <<nm, engine_calls, quick_results, version_results, probeVars, dispatchVars, runVars, pairVars, genVars, toolVars>>

ScanNext ==
    \/ QuickScanStart
    \/ QuickScanFails
    \/ QuickScanReturns
    \/ ScanTargetReturnsQuick
    \/ VersionScanStart
    \/ VersionScanFails
    \/ VersionScanReturns
    \/ ScanTargetReturnsVersion

(***************************************************************************)
(* Python values of the probes' result fields.                             *)
(* A text is a sequence of characters; Null is Python's None in a field.   *)
(***************************************************************************)
Null == <<"None">>
Msg(m) == <<m>>                      \* a message the code builds, kept whole
Truthy(t) == t # Null /\ t # <<>>    \* `if banner:` and the like

Whitespace == {" ", "\n"}
BadByte == "?"                       \* a byte utf-8 cannot decode

\* bytes.decode('utf-8', errors='ignore'): undecodable bytes are dropped
Decode(data) == SelectSeq(data, LAMBDA c : c # BadByte)

RECURSIVE LStrip(_)
LStrip(t) == IF t # <<>> /\ Head(t) \in Whitespace THEN LStrip(Tail(t)) ELSE t

RECURSIVE RStrip(_)
RStrip(t) ==
    IF t # <<>> /\ t[Len(t)] \in Whitespace THEN RStrip(SubSeq(t, 1, Len(t) - 1)) ELSE t

\* str.strip()
Strip(t) == RStrip(LStrip(t))

StartsWith(t, prefix) ==
    Len(t) >= Len(prefix) /\ SubSeq(t, 1, Len(prefix)) = prefix

\* index of the first c in t at or after position from, 0 if there is none
RECURSIVE Find(_, _, _)
Find(t, c, from) ==
    IF from > Len(t) THEN 0
    ELSE IF t[from] = c THEN from
    ELSE Find(t, c, from + 1)

\* str.split(sep, maxsplit)
RECURSIVE Split(_, _, _)
Split(t, sep, maxsplit) ==
    LET k == Find(t, sep, 1)
    IN  IF maxsplit = 0 \/ k = 0 THEN <<t>>
        ELSE <<SubSeq(t, 1, k - 1)>> \o Split(SubSeq(t, k + 1, Len(t)), sep, maxsplit - 1)

(***************************************************************************)
(* Exceptions and the except clauses that catch them.                      *)
(***************************************************************************)
NoExc == "none"

\* the classes below Exception; KeyboardInterrupt is not one of them
IsInstance(exc, class) ==
    \/ exc = class
    \/ class = "Exception" /\ exc # "KeyboardInterrupt"
    \/ class = "OSError" /\ exc \in {"ConnectionRefusedError", "socket.timeout"}
    \/ class = "BaseException"

\* whether one of a try statement's except clauses catches exc
Caught(exc, clauses) == \E i \in 1..Len(clauses) : IsInstance(exc, clauses[i])

\* the clause that handles exc: the first that matches
Handler(exc, clauses) ==
    clauses[CHOOSE i \in 1..Len(clauses) :
                /\ IsInstance(exc, clauses[i])
                /\ \A j \in 1..(i - 1) : ~IsInstance(exc, clauses[j])]

\* what leaves a try statement in which exc was raised
Leaves(exc, clauses) == IF exc = NoExc \/ Caught(exc, clauses) THEN NoExc ELSE exc

(***************************************************************************)
(* The network as a probe meets it.                                        *)
(***************************************************************************)
\* outcome of connecting to target:port
ConnectOutcomes(reachable) ==
    IF reachable THEN {"ok", "timeout", "error"} ELSE {"refused", "no_route"}

\* the exception sock.connect raises for an outcome
ConnectExc(outcome) ==
    CASE outcome = "ok" -> NoExc
      [] outcome = "refused" -> "ConnectionRefusedError"
      [] outcome = "no_route" -> "OSError"
      [] outcome = "timeout" -> "socket.timeout"
      [] OTHER -> "Exception"

\* what sock.recv(1024) delivers: bytes, or an outcome that raises
RecvData ==
    { <<"S", "S", "H", "-", "2", "-", "O", "-", "u", "\n">>,
      <<"S", "S", "H", "-", "2", "\n">>,
      <<"2", "2", "0", " ", "x", "\n">>,
      <<"?", "\n">>,
      <<>> }

RecvFailures == {<<"timeout">>, <<"error">>}

RecvOutcomes == RecvData \cup RecvFailures

RecvExc(outcome) ==
    CASE outcome = <<"timeout">> -> "socket.timeout"
      [] outcome = <<"error">> -> "ConnectionResetError"
      [] OTHER -> NoExc

\* how an operation ended, for the log of operations
RecvKind(outcome) == IF outcome \in RecvFailures THEN outcome[1] ELSE "data"

Op(name, outcome) == [op |-> name, outcome |-> outcome]

(***************************************************************************)
(* Banner grab of the SSH and FTP probes (_get_banner in both modules).    *)
(***************************************************************************)
\* `except socket.timeout` then `except Exception`
BannerClauses == <<"socket.timeout", "Exception">>

\* a banner grab that handles nothing but the timeout
GetBanner_TimeoutOnly(conn, recv) ==
    LET exc == IF ConnectExc(conn) # NoExc THEN ConnectExc(conn) ELSE RecvExc(recv)
    IN  [ret |-> IF exc = NoExc THEN Strip(Decode(recv)) ELSE Null,
         raised |-> exc,
         escaped |-> Leaves(exc, <<"socket.timeout">>),
         closed |-> exc = NoExc]

\* ssh_enum.py 60-77, ftp_enum.py 64-81: the value returned, the exception
\* raised inside the try, the exception that leaves the function, and
\* whether sock.close() was reached
GetBanner(conn, recv) ==
    LET exc == IF ConnectExc(conn) # NoExc THEN ConnectExc(conn) ELSE RecvExc(recv)
    IN  [ret |-> IF exc = NoExc THEN Strip(Decode(recv)) ELSE Null,
         raised |-> exc,
         escaped |-> Leaves(exc, BannerClauses),
         closed |-> exc = NoExc]

(***************************************************************************)
(* SSHEnumerator                                                           *)
(***************************************************************************)
Hyphen == "-"
SSHPrefix == <<"S", "S", "H", "-">>

\* a _parse_version that splits at every hyphen
ParseVersion_SplitAll(banner) ==
    IF StartsWith(banner, SSHPrefix) /\ Len(Split(banner, Hyphen, Len(banner))) >= 3
    THEN Split(banner, Hyphen, Len(banner))[3]
    ELSE banner

\* ssh_enum.py 89-101
ParseVersion(banner) ==
    IF StartsWith(banner, SSHPrefix) /\ Len(Split(banner, Hyphen, 2)) >= 3
    THEN Split(banner, Hyphen, 2)[3]
    ELSE banner

\* ssh_enum.py 36-42
SSHResults(port) ==
    [port |-> port, service |-> "ssh", banner |-> Null, version |-> Null, error |-> Null]

\* `other` when there is no second invocation
NoContext == [none |-> TRUE]

\* an enumerate() that keeps its results in a dictionary of the module,
\* which every invocation uses
SSHStart_SharedResults ==
    /\ ppc = "start"
    /\ probe.family = "ssh"
    /\ results' = SSHResults(probe.port)
    /\ ppc' = "ssh_banner"
    /\ other' = IF other = NoContext THEN other
                ELSE [other EXCEPT !.results = SSHResults(probe.port)]
    /\ UNCHANGED <<probe, escaped, ops, socks, scanVars, dispatchVars, runVars, genVars, toolVars>>

SSHStart ==
    /\ ppc = "start"
    /\ probe.family = "ssh"
    /\ results' = SSHResults(probe.port)
    /\ ppc' = "ssh_banner"
    /\ UNCHANGED <<probe, escaped, ops, socks, scanVars, dispatchVars, runVars, pairVars, genVars, toolVars>>

\* ssh_enum.py 46-51: the banner grab and what enumerate() does with it
SSHGetBanner ==
    /\ ppc = "ssh_banner"
    /\ \E conn \in ConnectOutcomes(probe.reachable), recv \in RecvOutcomes :
          LET b == GetBanner(conn, recv)
          IN  /\ ops' = ops \o <<Op("connect", conn)>>
                            \o (IF conn = "ok" THEN <<Op("recv", RecvKind(recv))>> ELSE <<>>)
              /\ socks' = IF b.closed THEN socks ELSE socks + 1
              /\ escaped' = b.escaped
              /\ IF b.escaped # NoExc
                 THEN UNCHANGED results
                 ELSE IF Truthy(b.ret)
                 THEN results' = [results EXCEPT !.banner = b.ret,
                                                 !.version = ParseVersion(b.ret)]
                 ELSE UNCHANGED results
    /\ ppc' = "done"
    /\ UNCHANGED <<probe, scanVars, dispatchVars, runVars, pairVars, genVars, toolVars>>

(***************************************************************************)
(* FTPEnumerator                                                           *)
(***************************************************************************)
\* ftp_enum.py 36-42
FTPResults(port) ==
    [port |-> port, service |-> "ftp", banner |-> Null, anonymous_login |-> FALSE,
     error |-> Null]

\* replies to ftp.login('anonymous', 'anonymous@'); ftplib raises error_perm
\* for a 5xx reply
LoginOutcomes == {"230", "202", "530"}

\* ftp_enum.py 90-105: every exception is caught and gives False
CheckAnonymousLogin(conn, login, quit) ==
    LET exc == IF ConnectExc(conn) # NoExc THEN ConnectExc(conn)
               ELSE IF login = "530" THEN "ftplib.error_perm"
               ELSE IF quit # "ok" THEN "ftplib.error_temp"
               ELSE NoExc
    IN  [ret |-> IF exc = NoExc THEN login = "230" ELSE FALSE,
         raised |-> exc,
         escaped |-> Leaves(exc, <<"Exception">>)]

FTPStart ==
    /\ ppc = "start"
    /\ probe.family = "ftp"
    /\ results' = FTPResults(probe.port)
    /\ ppc' = "ftp_banner"
    /\ UNCHANGED <<probe, escaped, ops, socks, scanVars, dispatchVars, runVars, pairVars, genVars, toolVars>>

\* ftp_enum.py 46-49
FTPGetBanner ==
    /\ ppc = "ftp_banner"
    /\ \E conn \in ConnectOutcomes(probe.reachable), recv \in RecvOutcomes :
          LET b == GetBanner(conn, recv)
          IN  /\ ops' = ops \o <<Op("connect", conn)>>
                            \o (IF conn = "ok" THEN <<Op("recv", RecvKind(recv))>> ELSE <<>>)
              /\ socks' = IF b.closed THEN socks ELSE socks + 1
              /\ escaped' = b.escaped
              /\ ppc' = IF b.escaped # NoExc THEN "done" ELSE "ftp_login"
              /\ IF b.escaped = NoExc /\ Truthy(b.ret)
                 THEN results' = [results EXCEPT !.banner = b.ret]
                 ELSE UNCHANGED results
    /\ UNCHANGED <<probe, scanVars, dispatchVars, runVars, pairVars, genVars, toolVars>>

\* ftp_enum.py 52-55
FTPCheckAnonymous ==
    /\ ppc = "ftp_login"
    /\ \E conn \in ConnectOutcomes(probe.reachable), login \in LoginOutcomes,
          quit \in {"ok", "error"} :
          LET a == CheckAnonymousLogin(conn, login, quit)
          IN  /\ ops' = ops \o <<Op("ftp_connect", conn)>>
                            \o (IF conn = "ok" THEN <<Op("ftp_login", login)>> ELSE <<>>)
              /\ escaped' = a.escaped
              /\ IF a.escaped = NoExc
                 THEN results' = [results EXCEPT !.anonymous_login = a.ret]
                 ELSE UNCHANGED results
    /\ ppc' = "done"
    /\ UNCHANGED <<probe, socks, scanVars, dispatchVars, runVars, pairVars, genVars, toolVars>>

(***************************************************************************)
(* DatabaseEnumerator                                                      *)
(***************************************************************************)
PyBool(b) == IF b THEN <<"True">> ELSE <<"False">>

\* a detection that takes every other port for MySQL
DetectDbType_DefaultMysql(port) ==
    CASE port = 3306 -> "mysql"
      [] port = 5432 -> "postgresql"
      [] port = 1433 -> "mssql"
      [] OTHER -> "mysql"

\* db_enum.py 19-23, 45-50
DetectDbType(port) ==
    CASE port = 3306 -> "mysql"
      [] port = 5432 -> "postgresql"
      [] port = 1433 -> "mssql"
      [] OTHER -> "unknown"

\* f'database ({self.db_type})'
DbService(db_type) ==
    CASE db_type = "mysql" -> "database (mysql)"
      [] db_type = "postgresql" -> "database (postgresql)"
      [] db_type = "mssql" -> "database (mssql)"
      [] OTHER -> "database (unknown)"

\* db_enum.py 59-68
DBResults(port) ==
    [port |-> port, service |-> DbService(DetectDbType(port)), db_type |-> DetectDbType(port),
     version |-> Null, banner |-> Null, accessible |-> FALSE,
     authentication_required |-> Null, error |-> Null]

\* db_enum.py 98-108: connect_ex gives an error number instead of raising for
\* what the C-level connect reports; a failed name lookup still raises
CheckPortOpen(conn) ==
    LET exc == IF conn = "error" THEN "socket.gaierror" ELSE NoExc
    IN  [ret |-> conn = "ok",
         raised |-> exc,
         escaped |-> Leaves(exc, <<"Exception">>),
         closed |-> exc = NoExc]

Nul == "NUL"

\* the first packet a MySQL port sends, or an outcome that raises
MysqlRecvData ==
    { <<"p", "5", ".", "7", "-", "u", Nul, "x">>,
      <<"p", "8", Nul>>,
      <<"p", Nul, "x">>,
      <<"p", "5", ".", "7">>,
      <<>> }

\* db_enum.py 150-160: the text between the first byte and the first NUL
\* after it, None when that text would be empty or no NUL follows
MysqlVersionField(data) ==
    LET k == Find(data, Nul, 2)
    IN  IF data # <<>> /\ k > 2 THEN Decode(SubSeq(data, 2, k - 1)) ELSE Null

\* db_enum.py 141-170
GetMysqlBanner(conn, recv) ==
    LET exc == IF ConnectExc(conn) # NoExc THEN ConnectExc(conn) ELSE RecvExc(recv)
    IN  [ret |-> IF exc = NoExc THEN MysqlVersionField(recv) ELSE Null,
         raised |-> exc,
         escaped |-> Leaves(exc, BannerClauses),
         closed |-> exc = NoExc]

\* db_enum.py 182-191: banner.split('-')[0]
ParseMysqlVersion(banner) == Split(banner, Hyphen, Len(banner))[1]

\* outcomes of a client library's connect with empty credentials
AuthOutcomes == {"import_error", "connected", "library_error", "other_error"}

\* the exception the import or the library call raises for an outcome
LibraryExc(outcome) ==
    CASE outcome = "connected" -> NoExc
      [] outcome = "import_error" -> "ImportError"
      [] outcome \in {"library_error", "failed"} -> "library.Error"
      [] OTHER -> "RuntimeError"

\* db_enum.py 216-224, 313-321, 413-421: the inner and the outer try
AuthInnerClauses == <<"ImportError", "library.Error">>
AuthOuterClauses == <<"Exception">>

\* db_enum.py 200-224, 297-321, 397-421: None without the client library,
\* False when the connection is accepted, True when the library or anything
\* else raises
CheckAuth(outcome) ==
    LET exc == LibraryExc(outcome)
    IN  IF exc = NoExc THEN [ret |-> PyBool(FALSE), escaped |-> NoExc]
        ELSE IF Caught(exc, AuthInnerClauses)
        THEN [ret |-> IF Handler(exc, AuthInnerClauses) = "ImportError"
                      THEN Null ELSE PyBool(TRUE),
              escaped |-> NoExc]
        ELSE IF Caught(exc, AuthOuterClauses)
        THEN [ret |-> PyBool(TRUE), escaped |-> NoExc]
        ELSE [ret |-> Null, escaped |-> exc]

\* outcomes of the version query through psycopg2 / pymssql
VersionOutcomes == {"import_error", "connected", "failed"}

ServerVersion == <<"1", "5", ".", "2">>

\* db_enum.py 279-288, 380-388
VersionClauses == <<"ImportError", "Exception">>

\* db_enum.py 256-288, 354-388: the version text, None for every failure
GetServerVersion(outcome) ==
    LET exc == LibraryExc(outcome)
    IN  [ret |-> IF exc = NoExc THEN ServerVersion ELSE Null,
         escaped |-> Leaves(exc, VersionClauses)]

\* db_enum.py 130-132, 245-247, 343-345: the try around a protocol's steps
EnumerateClauses == <<"Exception">>

\* the results and the exception left when a step of _enumerate_* raised exc
StepFailed(res, exc) ==
    IF Caught(exc, EnumerateClauses)
    THEN [results |-> [res EXCEPT !.error = Msg(exc)], escaped |-> NoExc]
    ELSE [results |-> res, escaped |-> exc]

DBStart ==
    /\ ppc = "start"
    /\ probe.family = "database"
    /\ results' = DBResults(probe.port)
    /\ ppc' = "db_check_port"
    /\ UNCHANGED <<probe, escaped, ops, socks, scanVars, dispatchVars, runVars, pairVars, genVars, toolVars>>

\* where enumerate() goes once the port is open (db_enum.py 79-87)
DbBranch(db_type) ==
    CASE db_type = "mysql" -> "db_mysql_banner"
      [] db_type = "postgresql" -> "db_pg_version"
      [] db_type = "mssql" -> "db_mssql_info"
      [] OTHER -> "done"

\* db_enum.py 72-87
DBCheckPort ==
    /\ ppc = "db_check_port"
    /\ \E conn \in ConnectOutcomes(probe.reachable) :
          LET c == CheckPortOpen(conn)
          IN  /\ ops' = Append(ops, Op("connect_ex", conn))
              /\ socks' = IF c.closed THEN socks ELSE socks + 1
              /\ escaped' = c.escaped
              /\ IF c.escaped # NoExc
                 THEN /\ ppc' = "done"
                      /\ UNCHANGED results
                 ELSE IF ~c.ret
                 THEN /\ results' = [results EXCEPT !.error = Msg("Port is not accessible")]
                      /\ ppc' = "done"
                 ELSE /\ results' =
                            IF DbBranch(results.db_type) = "done"
                            THEN [results EXCEPT !.accessible = TRUE,
                                                 !.error = Msg("Unknown database type")]
                            ELSE [results EXCEPT !.accessible = TRUE]
                      /\ ppc' = DbBranch(results.db_type)
    /\ UNCHANGED <<probe, scanVars, dispatchVars, runVars, pairVars, genVars, toolVars>>

\* db_enum.py 119-124, and 130-132 when the helper lets an exception out
DBMysqlBanner ==
    /\ ppc = "db_mysql_banner"
    /\ \E conn \in ConnectOutcomes(probe.reachable),
          recv \in MysqlRecvData \cup RecvFailures :
          LET b == GetMysqlBanner(conn, recv)
          IN  /\ ops' = ops \o <<Op("connect", conn)>>
                            \o (IF conn = "ok" THEN <<Op("recv", RecvKind(recv))>> ELSE <<>>)
              /\ socks' = IF b.closed THEN socks ELSE socks + 1
              /\ IF b.escaped # NoExc
                 THEN /\ results' = StepFailed(results, b.escaped).results
                      /\ escaped' = StepFailed(results, b.escaped).escaped
                      /\ ppc' = "done"
                 ELSE /\ results' =
                            IF Truthy(b.ret)
                            THEN [results EXCEPT !.banner = b.ret,
                                                 !.version = ParseMysqlVersion(b.ret)]
                            ELSE results
                      /\ UNCHANGED escaped
                      /\ ppc' = "db_mysql_auth"
    /\ UNCHANGED <<probe, scanVars, dispatchVars, runVars, pairVars, genVars, toolVars>>

\* db_enum.py 127-128, 242-243, 340-341
DBCheckAuth ==
    /\ ppc \in {"db_mysql_auth", "db_pg_auth", "db_mssql_auth"}
    /\ \E outcome \in AuthOutcomes :
          LET a == CheckAuth(outcome)
          IN  /\ ops' = Append(ops, Op("library_connect", outcome))
              /\ IF a.escaped # NoExc
                 THEN /\ results' = StepFailed(results, a.escaped).results
                      /\ escaped' = StepFailed(results, a.escaped).escaped
                 ELSE /\ results' = [results EXCEPT !.authentication_required = a.ret]
                      /\ UNCHANGED escaped
    /\ ppc' = "done"
    /\ UNCHANGED <<probe, socks, scanVars, dispatchVars, runVars, pairVars, genVars, toolVars>>

\* db_enum.py 237-239
DBPostgresqlVersion ==
    /\ ppc = "db_pg_version"
    /\ \E outcome \in VersionOutcomes :
          LET v == GetServerVersion(outcome)
          IN  /\ ops' = Append(ops, Op("library_connect", outcome))
              /\ IF v.escaped # NoExc
                 THEN /\ results' = StepFailed(results, v.escaped).results
                      /\ escaped' = StepFailed(results, v.escaped).escaped
                      /\ ppc' = "done"
                 ELSE /\ results' = IF Truthy(v.ret)
                                    THEN [results EXCEPT !.version = v.ret]
                                    ELSE results
                      /\ UNCHANGED escaped
                      /\ ppc' = "db_pg_auth"
    /\ UNCHANGED <<probe, socks, scanVars, dispatchVars, runVars, pairVars, genVars, toolVars>>

\* db_enum.py 334-337
DBMssqlInfo ==
    /\ ppc = "db_mssql_info"
    /\ \E outcome \in VersionOutcomes :
          LET v == GetServerVersion(outcome)
          IN  /\ ops' = Append(ops, Op("library_connect", outcome))
              /\ IF v.escaped # NoExc
                 THEN /\ results' = StepFailed(results, v.escaped).results
                      /\ escaped' = StepFailed(results, v.escaped).escaped
                      /\ ppc' = "done"
                 ELSE /\ results' = IF Truthy(v.ret)
                                    THEN [results EXCEPT !.version = v.ret, !.banner = v.ret]
                                    ELSE results
                      /\ UNCHANGED escaped
                      /\ ppc' = "db_mssql_auth"
    /\ UNCHANGED <<probe, socks, scanVars, dispatchVars, runVars, pairVars, genVars, toolVars>>

(***************************************************************************)
(* utils.run_command and utils.check_tool_installed                        *)
(***************************************************************************)
\* What subprocess.run does with an external tool: it exits with a return
\* code and its output, runs past the timeout, is not found, or cannot be
\* started.  stdout is a sequence of lines, a line a sequence of words.
Exit(rc, stdout) == [kind |-> "exit", returncode |-> rc, stdout |-> stdout]
TimedOut == [kind |-> "timeout", returncode |-> 0, stdout |-> <<>>]
NotFound == [kind |-> "not_found", returncode |-> 0, stdout |-> <<>>]
StartError == [kind |-> "error", returncode |-> 0, stdout |-> <<>>]

ToolFailures == {TimedOut, NotFound, StartError}

\* the exception subprocess.run raises for an outcome
RunExc(outcome) ==
    CASE outcome.kind = "exit" -> NoExc
      [] outcome.kind = "timeout" -> "subprocess.TimeoutExpired"
      [] outcome.kind = "not_found" -> "FileNotFoundError"
      [] OTHER -> "PermissionError"

\* utils.py 163-173
RunCommandClauses == <<"subprocess.TimeoutExpired", "FileNotFoundError", "Exception">>

\* a run_command whose only except clause is the one for a missing command
RunCommand_MissingOnly(outcome) ==
    LET exc == RunExc(outcome)
    IN  IF exc = NoExc
        THEN [returncode |-> outcome.returncode, stdout |-> outcome.stdout,
              stderr |-> Msg("stderr"), escaped |-> NoExc]
        ELSE IF ~Caught(exc, <<"FileNotFoundError">>)
        THEN [returncode |-> 0, stdout |-> <<>>, stderr |-> <<>>, escaped |-> exc]
        ELSE [returncode |-> -1, stdout |-> <<>>, stderr |-> Msg("Command not found"),
              escaped |-> NoExc]

\* utils.py 151-173: the triple run_command returns, and the exception that
\* leaves it
RunCommand(outcome) ==
    LET exc == RunExc(outcome)
    IN  IF exc = NoExc
        THEN [returncode |-> outcome.returncode, stdout |-> outcome.stdout,
              stderr |-> Msg("stderr"), escaped |-> NoExc]
        ELSE IF ~Caught(exc, RunCommandClauses)
        THEN [returncode |-> 0, stdout |-> <<>>, stderr |-> <<>>, escaped |-> exc]
        ELSE IF Handler(exc, RunCommandClauses) = "subprocess.TimeoutExpired"
        THEN [returncode |-> -1, stdout |-> <<>>, stderr |-> Msg("Command timed out"),
              escaped |-> NoExc]
        ELSE IF Handler(exc, RunCommandClauses) = "FileNotFoundError"
        THEN [returncode |-> -1, stdout |-> <<>>, stderr |-> Msg("Command not found"),
              escaped |-> NoExc]
        ELSE [returncode |-> -1, stdout |-> <<>>, stderr |-> Msg(exc), escaped |-> NoExc]

\* a tool helper wraps its run_command call in try / except Exception and
\* returns None when anything was raised
ToolClauses == <<"Exception">>

ToolEscapes(outcome) == Leaves(RunCommand(outcome).escaped, ToolClauses)

\* outcomes of a tool given the outputs it can print; a tool that has to
\* talk to an unreachable target exits non-zero or fails
ToolOutcomes(outputs, canSucceed) ==
    (IF canSucceed THEN {Exit(0, o) : o \in outputs} ELSE {})
    \cup {Exit(1, o) : o \in outputs} \cup ToolFailures

\* how a tool run ended, for the log of operations
ToolKind(outcome) ==
    IF outcome.kind = "exit" /\ outcome.returncode # 0 THEN "exit_nonzero" ELSE outcome.kind

Contains(line, word) == \E i \in 1..Len(line) : line[i] = word

(***************************************************************************)
(* DNSEnumerator                                                           *)
(***************************************************************************)
\* dns_enum.py 37-43; records maps a record type to the lines kept for it
RecordTypes == <<"A", "AAAA", "MX", "NS", "TXT", "SOA">>

NoRecords == [t \in {} |-> <<>>]

DNSResults(port) ==
    [port |-> port, service |-> "dns", records |-> NoRecords, zone_transfer |-> Null,
     error |-> Null]

DigOutputs ==
    { <<>>,
      << <<"t.", "SOA", "ns.t.">>, <<"www.t.", "A", "1.2.3.4">> >>,
      << <<";", "Transfer failed.">> >> }

\* 'Transfer failed' in stdout
TransferFailed(stdout) == \E i \in 1..Len(stdout) : Contains(stdout[i], "Transfer failed.")

\* dns_enum.py 66-81
AttemptZoneTransfer(outcome) ==
    LET r == RunCommand(outcome)
    IN  IF r.escaped = NoExc /\ r.returncode = 0 /\ r.stdout # <<>>
           /\ ~TransferFailed(r.stdout)
        THEN r.stdout
        ELSE Null

NslookupOutputs ==
    { <<>>,
      << <<"Server:", "1.1.1.1">>, <<"Address:", "1.1.1.1#53">>, <<>>,
         <<"Name:", "t">>, <<"Address:", "1.2.3.4">> >>,
      << <<"Server:", "1.1.1.1">>, <<"t", "mail", "exchanger", "=", "10", "mx.t.">>,
         <<"t", "nameserver", "=", "ns.t.">>, <<"t", "text", "=", "v">>,
         <<"t", "has", "AAAA", "address", "::1">>,  <<"t", "SOA", "A", "ns.t.">> >> }

MailExchanger(line) ==
    \E i \in 1..(Len(line) - 1) : line[i] = "mail" /\ line[i + 1] = "exchanger"

\* dns_enum.py 133-152 for one stripped line: whether the line is kept
KeepsLine(line, record_type) ==
    IF line = <<>> \/ Head(line) = "Server:" \/ Head(line) = "Address:" THEN FALSE
    ELSE IF record_type = "A" /\ Contains(line, "Address:") THEN TRUE
    ELSE IF record_type = "MX" /\ MailExchanger(line) THEN TRUE
    ELSE IF record_type = "NS" /\ Contains(line, "nameserver") THEN TRUE
    ELSE IF record_type = "TXT" /\ Contains(line, "=") THEN TRUE
    ELSE Contains(line, record_type)

\* dns_enum.py 125-157
ParseNslookupOutput(output, record_type) ==
    SelectSeq(output, LAMBDA line : KeepsLine(line, record_type))

\* dns_enum.py 94-107: the records dictionary after one record type
QueryRecord(records, record_type, outcome) ==
    LET r == RunCommand(outcome)
        found == ParseNslookupOutput(r.stdout, record_type)
    IN  IF r.escaped = NoExc /\ r.returncode = 0 /\ r.stdout # <<>> /\ found # <<>>
        THEN [t \in DOMAIN records \cup {record_type} |->
                 IF t = record_type THEN found ELSE records[t]]
        ELSE records

DNSStart ==
    /\ ppc = "start"
    /\ probe.family = "dns"
    /\ results' = DNSResults(probe.port)
    /\ ppc' = "dns_axfr"
    /\ UNCHANGED <<probe, escaped, ops, socks, scanVars, dispatchVars, runVars, pairVars, genVars, toolVars>>

\* dns_enum.py 47-49
DNSZoneTransfer ==
    /\ ppc = "dns_axfr"
    /\ \E outcome \in ToolOutcomes(DigOutputs, probe.reachable) :
          /\ ops' = Append(ops, Op("dig", ToolKind(outcome)))
          /\ escaped' = ToolEscapes(outcome)
          /\ results' = IF Truthy(AttemptZoneTransfer(outcome))
                        THEN [results EXCEPT !.zone_transfer = AttemptZoneTransfer(outcome)]
                        ELSE results
    /\ ppc' = IF escaped' = NoExc THEN "dns_query" ELSE "done"
    /\ UNCHANGED <<probe, socks, scanVars, dispatchVars, runVars, pairVars, genVars, toolVars>>

\* record types queried so far
Queried == Cardinality({i \in 1..Len(ops) : ops[i].op = "nslookup"})

\* dns_enum.py 53-57, one iteration of the loop at 93-110; nslookup asks the
\* system's resolver, whatever the state of target:port
DNSQueryRecord ==
    /\ ppc = "dns_query"
    /\ Queried < Len(RecordTypes)
    /\ \E outcome \in ToolOutcomes(NslookupOutputs, TRUE) :
          /\ ops' = Append(ops, Op("nslookup", ToolKind(outcome)))
          /\ escaped' = ToolEscapes(outcome)
          /\ results' = [results EXCEPT
                            !.records = QueryRecord(@, RecordTypes[Queried + 1], outcome)]
    /\ ppc' = IF Queried + 1 = Len(RecordTypes) \/ escaped' # NoExc THEN "done" ELSE "dns_query"
    /\ UNCHANGED <<probe, socks, scanVars, dispatchVars, runVars, pairVars, genVars, toolVars>>

(***************************************************************************)
(* SMBEnumerator                                                           *)
(***************************************************************************)
\* smb_enum.py 37-43
SMBResults(port) ==
    [port |-> port, service |-> "smb", shares |-> <<>>, version |-> Null, error |-> Null]

\* lines smbclient -L prints
SmbLines ==
    { <<"Sharename", "Type", "Comment">>,
      <<"---------", "----", "-------">>,
      <<"IPC$", "IPC">>,
      <<"docs", "Disk">>,
      <<>>,
      <<"Server", "Comment">> }

StartsWithDash(line) == line # <<>> /\ Head(line) \in {"---------"}

SystemShares == {"IPC$", "print$"}

\* smb_enum.py 82-97: the loop over the lines of stdout
RECURSIVE ShareNames(_, _)
ShareNames(lines, in_shares_section) ==
    IF lines = <<>> THEN <<>>
    ELSE LET line == Head(lines)
         IN  IF Contains(line, "Sharename") THEN ShareNames(Tail(lines), TRUE)
             ELSE IF in_shares_section /\ line # <<>> /\ ~StartsWithDash(line)
                     /\ Head(line) \notin SystemShares
             THEN <<Head(line)>> \o ShareNames(Tail(lines), in_shares_section)
             ELSE ShareNames(Tail(lines), in_shares_section)

\* smb_enum.py 64-102
EnumerateShares(outcome) ==
    LET r == RunCommand(outcome)
    IN  IF r.escaped = NoExc /\ r.returncode = 0 /\ r.stdout # <<>>
           /\ ShareNames(r.stdout, FALSE) # <<>>
        THEN ShareNames(r.stdout, FALSE)
        ELSE Null

SMBStart ==
    /\ ppc = "start"
    /\ probe.family = "smb"
    /\ results' = SMBResults(probe.port)
    /\ ppc' = "smb_shares"
    /\ UNCHANGED <<probe, escaped, ops, socks, scanVars, dispatchVars, runVars, pairVars, genVars, toolVars>>

\* smb_enum.py 46-55
SMBShares ==
    /\ ppc = "smb_shares"
    /\ \/ \E k \in 0..MaxLines : \E out \in [1..k -> SmbLines] :
             \E outcome \in ToolOutcomes({out}, probe.reachable) :
                /\ ops' = ops \o <<Op("which smbclient", "found"), Op("smbclient", ToolKind(outcome))>>
                /\ escaped' = ToolEscapes(outcome)
                /\ results' = IF Truthy(EnumerateShares(outcome))
                              THEN [results EXCEPT !.shares = EnumerateShares(outcome)]
                              ELSE results
       \/ /\ ops' = Append(ops, Op("which smbclient", "missing"))
          /\ results' = [results EXCEPT !.error = Msg("smbclient not available")]
          /\ UNCHANGED escaped
    /\ ppc' = "done"
    /\ UNCHANGED <<probe, socks, scanVars, dispatchVars, runVars, pairVars, genVars, toolVars>>

(***************************************************************************)
(* WebEnumerator and enumerate_web                                         *)
(***************************************************************************)
Absent == <<"absent">>               \* a key the dictionary does not have

\* web_enum.py 184, 29
WebProtocol(port) == IF port \in {443, 8443} THEN "https" ELSE "http"

\* web_enum.py 40-48
WebResults(port) ==
    [port |-> port, protocol |-> WebProtocol(port),
     url |-> <<WebProtocol(port), port>>, headers |-> <<>>,
     directories |-> <<>>, subdomains |-> <<>>, errors |-> <<>>,
     feroxbuster_output |-> Absent, sublist3r_output |-> Absent]

\* outcomes of requests.head
RequestOutcomes(reachable) ==
    IF reachable THEN {"ok", "ok_no_headers", "ssl_error", "timeout", "error"}
    ELSE {"connection_error"}

ResponseHeaders(outcome) == IF outcome = "ok" THEN <<"Server: x">> ELSE <<>>

\* the exception requests.head raises for an outcome
RequestExc(outcome) ==
    CASE outcome \in {"ok", "ok_no_headers"} -> NoExc
      [] outcome = "ssl_error" -> "requests.SSLError"
      [] outcome = "timeout" -> "requests.Timeout"
      [] outcome = "connection_error" -> "requests.ConnectionError"
      [] OTHER -> "ValueError"

\* web_enum.py 75, 85
HeaderClauses == <<"requests.SSLError", "Exception">>

\* web_enum.py 83: the bare except around the second request
FallbackClauses == <<"BaseException">>

\* web_enum.py 66-88: the headers returned (None for a failure), the
\* requests made and the exception that leaves the function
GetHeaders(protocol, first, second) ==
    LET exc == RequestExc(first)
    IN  IF exc = NoExc
        THEN [ret |-> ResponseHeaders(first), requests |-> <<first>>, escaped |-> NoExc]
        ELSE IF ~Caught(exc, HeaderClauses)
        THEN [ret |-> Null, requests |-> <<first>>, escaped |-> exc]
        ELSE IF Handler(exc, HeaderClauses) = "requests.SSLError" /\ protocol = "https"
        THEN [ret |-> IF RequestExc(second) = NoExc THEN ResponseHeaders(second) ELSE Null,
              requests |-> <<first, second>>,
              escaped |-> Leaves(RequestExc(second), FallbackClauses)]
        ELSE [ret |-> Null, requests |-> <<first>>, escaped |-> NoExc]

ToolText == {<<>>, <<"found">>}

\* web_enum.py 114-123: feroxbuster's output counts when it exits with 0
FeroxbusterOutput(outcome) ==
    LET r == RunCommand(outcome)
    IN  IF r.escaped = NoExc /\ r.returncode = 0 THEN r.stdout ELSE Null

\* a sublist3r helper that goes by the exit code alone
Sublist3rOutput_ExitCodeOnly(outcome) ==
    LET r == RunCommand(outcome)
    IN  IF r.escaped = NoExc /\ r.returncode = 0 THEN r.stdout ELSE Null

\* web_enum.py 152-161: sublist3r's output counts when it exits with 0 or
\* printed anything
Sublist3rOutput(outcome) ==
    LET r == RunCommand(outcome)
    IN  IF r.escaped = NoExc /\ (r.returncode = 0 \/ r.stdout # <<>>) THEN r.stdout ELSE Null

WebStart ==
    /\ ppc = "start"
    /\ probe.family = "web"
    /\ results' = WebResults(probe.port)
    /\ ppc' = "web_headers"
    /\ UNCHANGED <<probe, escaped, ops, socks, scanVars, dispatchVars, runVars, pairVars, genVars, toolVars>>

\* an enumerate_web that runs the tools whatever run_tools says
WebGetHeaders_AlwaysTools ==
    /\ ppc = "web_headers"
    /\ \E first, second \in RequestOutcomes(probe.reachable) :
          LET h == GetHeaders(results.protocol, first, second)
          IN  /\ ops' = ops \o [i \in 1..Len(h.requests) |-> Op("requests.head", h.requests[i])]
              /\ results' = IF h.escaped = NoExc /\ Truthy(h.ret)
                            THEN [results EXCEPT !.headers = h.ret]
                            ELSE results
              /\ escaped' = h.escaped
    /\ ppc' = IF escaped' = NoExc THEN "web_ferox" ELSE "done"
    /\ UNCHANGED <<probe, socks, scanVars, dispatchVars, runVars, pairVars, genVars, toolVars>>

\* web_enum.py 52-56, then enumerate_web 190
WebGetHeaders ==
    /\ ppc = "web_headers"
    /\ \E first, second \in RequestOutcomes(probe.reachable) :
          LET h == GetHeaders(results.protocol, first, second)
          IN  /\ ops' = ops \o [i \in 1..Len(h.requests) |-> Op("requests.head", h.requests[i])]
              /\ results' = IF h.escaped = NoExc /\ Truthy(h.ret)
                            THEN [results EXCEPT !.headers = h.ret]
                            ELSE results
              /\ escaped' = h.escaped
    /\ ppc' = IF probe.run_tools /\ escaped' = NoExc THEN "web_ferox" ELSE "done"
    /\ UNCHANGED <<probe, socks, scanVars, dispatchVars, runVars, pairVars, genVars, toolVars>>

\* enumerate_web 191-194, run_feroxbuster 97-128
WebFeroxbuster ==
    /\ ppc = "web_ferox"
    /\ \/ \E outcome \in ToolOutcomes(ToolText, probe.reachable) :
             /\ ops' = ops \o <<Op("which feroxbuster", "found"), Op("feroxbuster", ToolKind(outcome))>>
             /\ escaped' = ToolEscapes(outcome)
             /\ results' = IF Truthy(FeroxbusterOutput(outcome))
                           THEN [results EXCEPT !.feroxbuster_output = FeroxbusterOutput(outcome)]
                           ELSE results
       \/ /\ ops' = Append(ops, Op("which feroxbuster", "missing"))
          /\ UNCHANGED <<results, escaped>>
    /\ ppc' = IF escaped' = NoExc THEN "web_sublist3r" ELSE "done"
    /\ UNCHANGED <<probe, socks, scanVars, dispatchVars, runVars, pairVars, genVars, toolVars>>

\* enumerate_web 196-199, run_sublist3r 136-166; sublist3r asks public
\* sources, whatever the state of target:port
WebSublist3r ==
    /\ ppc = "web_sublist3r"
    /\ \/ \E outcome \in ToolOutcomes(ToolText, TRUE) :
             /\ ops' = ops \o <<Op("which sublist3r", "found"), Op("sublist3r", ToolKind(outcome))>>
             /\ escaped' = ToolEscapes(outcome)
             /\ results' = IF Truthy(Sublist3rOutput(outcome))
                           THEN [results EXCEPT !.sublist3r_output = Sublist3rOutput(outcome)]
                           ELSE results
       \/ /\ ops' = Append(ops, Op("which sublist3r", "missing"))
          /\ UNCHANGED <<results, escaped>>
    /\ ppc' = "done"
    /\ UNCHANGED <<probe, socks, scanVars, dispatchVars, runVars, pairVars, genVars, toolVars>>

(***************************************************************************)
(* One probe invocation.                                                   *)
(***************************************************************************)
ProbePorts(family) ==
    CASE family = "ssh" -> {22}
      [] family = "ftp" -> {21}
      [] family = "database" -> {3306, 5432, 1433, 27017}
      [] family = "dns" -> {53}
      [] family = "smb" -> {445}
      [] family = "web" -> {80, 443}

Families == {"ssh", "ftp", "database", "dns", "smb", "web"}

Probes ==
    UNION {[family : {f}, port : ProbePorts(f), reachable : BOOLEAN,
            run_tools : IF f = "web" THEN BOOLEAN ELSE {FALSE}] : f \in Families}

NoProbe == [family |-> "none", port |-> 0, reachable |-> FALSE, run_tools |-> FALSE]

NoResults == [none |-> TRUE]

\* no probe is running
ProbeIdle ==
    /\ probe = NoProbe
    /\ ppc = "idle"
    /\ results = NoResults
    /\ escaped = NoExc
    /\ ops = <<>>
    /\ socks = 0

ProbeInit ==
    /\ probe \in Probes
    /\ ppc = "start"
    /\ results = NoResults
    /\ escaped = NoExc
    /\ ops = <<>>
    /\ socks = 0

ProbeNext ==
    \/ SSHStart
    \/ SSHGetBanner
    \/ FTPStart
    \/ FTPGetBanner
    \/ FTPCheckAnonymous
    \/ DBStart
    \/ DBCheckPort
    \/ DBMysqlBanner
    \/ DBCheckAuth
    \/ DBPostgresqlVersion
    \/ DBMssqlInfo
    \/ DNSStart
    \/ DNSZoneTransfer
    \/ DNSQueryRecord
    \/ SMBStart
    \/ SMBShares
    \/ WebStart
    \/ WebGetHeaders
    \/ WebFeroxbuster
    \/ WebSublist3r

(***************************************************************************)
(* scan_target in its environment: the user may interrupt the engine, and  *)
(* the engine need not answer.                                             *)
(***************************************************************************)
\* port_scanner.py 59, 101: the one except clause of quick_scan and of
\* version_scan
ScanClauses == <<"Exception">>

\* the user interrupts while nm.scan is running (lines 50, 92):
\* KeyboardInterrupt is raised inside the try of the running phase
ScanInterrupted ==
    /\ pc \in {"p1_running", "p2_running"}
    /\ engine_calls' = MarkReturned(engine_calls, "interrupted")
    /\ IF Caught("KeyboardInterrupt", ScanClauses)
       THEN /\ pc' = IF pc = "p1_running" THEN "p1_done" ELSE "p2_done"
            /\ quick_results' = IF pc = "p1_running" THEN ScanError ELSE quick_results
            /\ version_results' = IF pc = "p2_running" THEN ScanError ELSE version_results
       ELSE \* the exception leaves quick_scan / version_scan and scan_target
            /\ pc' = "interrupted"
            /\ UNCHANGED <<quick_results, version_results>>
    /\ UNCHANGED <<nm, returned, probeVars, dispatchVars, runVars, pairVars, genVars, toolVars>>

\* the steps scan_target takes by itself; the return of nm.scan is the
\* engine's step, and neither call of nm.scan sets a timeout (lines 50, 92)
ScanSteps ==
    \/ QuickScanStart
    \/ ScanTargetReturnsQuick
    \/ VersionScanStart
    \/ ScanTargetReturnsVersion

ScanEnvNext ==
    \/ ScanNext
    \/ ScanInterrupted

(***************************************************************************)
(* A direct call of utils.run_command.                                     *)
(***************************************************************************)
NoCall == [kind |-> "none", returncode |-> 0, stdout |-> <<>>]

\* no run_command call is observed
RunIdle ==
    /\ run_call = NoCall
    /\ run_result = None

\* utils.py 154-165: subprocess.run(..., timeout=timeout) kills the child
\* before it raises TimeoutExpired; a command that cannot be started has no
\* child
ChildAfter(outcome) ==
    CASE outcome.kind = "exit" -> "exited"
      [] outcome.kind = "timeout" -> "killed"
      [] OTHER -> "not_started"

\* what a tool prints: up to MaxLines lines
ToolPrints == UNION {[1..k -> SmbLines] : k \in 0..MaxLines}

\* the tools run_command may be given
RunCalls == ToolOutcomes(ToolPrints, TRUE)

RunInit ==
    /\ run_call \in RunCalls
    /\ run_result = None

\* utils.py 151-173: the call returns
RunCommandReturns ==
    /\ run_call # NoCall
    /\ run_result = None
    /\ run_result' = RunCommand(run_call)
    /\ UNCHANGED <<run_call, scanVars, probeVars, dispatchVars, pairVars, genVars, toolVars>>

(***************************************************************************)
(* The dispatch and aggregation stage.  The orchestrator is not among the  *)
(* modules; the stage follows section 4.2 of the design document: one      *)
(* probe per open port with a recognized convention, invoked in port       *)
(* order, every result merged whether the probe failed or not.             *)
(***************************************************************************)
NoReport == [none |-> TRUE]

\* the dispatch stage is not running
DispatchIdle ==
    /\ dpc = "idle"
    /\ cursor = 0
    /\ report = NoReport

\* the static port -> protocol mapping of the stage
ProbeFor(port) ==
    CASE port = 21 -> "ftp"
      [] port = 22 -> "ssh"
      [] port \in {80, 443, 8443} -> "web"
      [] port = 445 -> "smb"
      [] port = 53 -> "dns"
      [] port \in {3306, 5432, 1433} -> "database"
      [] OTHER -> "none"

\* a record the stage probes: an open port with a recognized convention
Dispatched(rec) == rec.state = "open" /\ ProbeFor(rec.port) # "none"

\* what the engine reports in Phase 1 of the runs the stage is started
\* after: tcp ports in ascending order, every entry readable
Phase1Lists ==
    {s \in UNION {[1..k -> QuickEntries] : k \in 0..MaxEntries} :
        /\ \A i \in 1..Len(s) : s[i].protocol = "tcp"
        /\ \A i \in 1..(Len(s) - 1) : s[i].port < s[i + 1].port}

\* a Phase 2 that finds every port it was given open, as Phase 1 did
Phase2List(ports) ==
    [i \in 1..Len(ports) |->
        [port |-> ports[i], protocol |-> "tcp", state |-> "open", script |-> FALSE]]

\* scan_target from call to return, for a Phase-1 engine output and a
\* Phase 2 that raises or answers: the values of its variables at "done"
FinishedScan(s, phase2) ==
    LET quick == ParseScanResults(EngineOutput(s, 0), FALSE)
        call1 == [profile |-> "quick", ports |-> <<>>, status |-> "ok"]
        call2 == [profile |-> "deep", ports |-> OpenPorts(quick), status |-> phase2]
        version == IF phase2 = "raised" THEN ScanError
                   ELSE ParseScanResults(EngineOutput(Phase2List(OpenPorts(quick)), 0), TRUE)
    IN  IF AfterQuick(quick) = "return"
        THEN [engine_calls |-> <<call1>>, quick_results |-> quick,
              version_results |-> None, returned |-> quick]
        ELSE [engine_calls |-> <<call1, call2>>, quick_results |-> quick,
              version_results |-> version, returned |-> version]

\* the stage starts on the port list scan_target returned
DispatchInit ==
    /\ \E s \in Phase1Lists, phase2 \in {"ok", "raised"} :
          /\ pc = "done"
          /\ nm = "host"
          /\ engine_calls = FinishedScan(s, phase2).engine_calls
          /\ quick_results = FinishedScan(s, phase2).quick_results
          /\ version_results = FinishedScan(s, phase2).version_results
          /\ returned = FinishedScan(s, phase2).returned
    /\ dpc = "select"
    /\ cursor = 1
    /\ report = [ports |-> returned.ports, probes |-> <<>>]

\* the probe's own connection or collection failed, or it raised
ProbeFailed ==
    \/ escaped # NoExc
    \/ \E i \in 1..Len(ops) :
          ops[i].outcome \in {"refused", "no_route", "timeout", "error", "connection_error"}

\* the entry the stage keeps for a finished probe; an exception that left
\* the probe is converted into a result with a generic error
ProbeEntry ==
    [port |-> probe.port,
     tag |-> probe.family,
     failed |-> ProbeFailed,
     result |-> IF escaped # NoExc
                THEN [port |-> probe.port, service |-> probe.family,
                      error |-> Msg("probe failed")]
                ELSE results]

\* a record that gets no probe: not open, or no recognized convention
DispatchSkip ==
    /\ dpc = "select"
    /\ cursor <= Len(report.ports)
    /\ ~Dispatched(report.ports[cursor])
    /\ cursor' = cursor + 1
    /\ UNCHANGED <<dpc, report, scanVars, probeVars, runVars, pairVars, genVars, toolVars>>

\* the probe selected for an open port is invoked
DispatchInvoke ==
    /\ dpc = "select"
    /\ cursor <= Len(report.ports)
    /\ Dispatched(report.ports[cursor])
    /\ \E r \in BOOLEAN, t \in BOOLEAN :
          /\ ProbeFor(report.ports[cursor].port) # "web" => ~t
          /\ probe' = [family |-> ProbeFor(report.ports[cursor].port),
                       port |-> report.ports[cursor].port,
                       reachable |-> r, run_tools |-> t]
    /\ ppc' = "start"
    /\ results' = NoResults
    /\ escaped' = NoExc
    /\ ops' = <<>>
    /\ dpc' = "probing"
    /\ UNCHANGED <<cursor, report, socks, scanVars, runVars, pairVars, genVars, toolVars>>

\* the probe has ended: its result, successful or not, is merged
DispatchCollect ==
    /\ dpc = "probing"
    /\ ppc = "done"
    /\ report' = [report EXCEPT !.probes = Append(@, ProbeEntry)]
    /\ cursor' = cursor + 1
    /\ dpc' = "select"
    /\ probe' = NoProbe
    /\ ppc' = "idle"
    /\ results' = NoResults
    /\ escaped' = NoExc
    /\ ops' = <<>>
    /\ UNCHANGED <<socks, scanVars, runVars, pairVars, genVars, toolVars>>

\* every record was handled: the report is returned
DispatchReturn ==
    /\ dpc = "select"
    /\ cursor > Len(report.ports)
    /\ dpc' = "done"
    /\ UNCHANGED <<cursor, report, scanVars, probeVars, runVars, pairVars, genVars, toolVars>>

\* the stage and the probes its port mapping reaches for the ports scanned
DispatchNext ==
    \/ DispatchSkip
    \/ DispatchInvoke
    \/ DispatchCollect
    \/ DispatchReturn
    \/ SSHStart
    \/ SSHGetBanner
    \/ WebStart
    \/ WebGetHeaders
    \/ WebFeroxbuster
    \/ WebSublist3r
    \/ DBStart
    \/ DBCheckPort
    \/ DBMysqlBanner
    \/ DBCheckAuth

(***************************************************************************)
(* Two probe invocations whose steps interleave.  Every enumerator object  *)
(* keeps its target and port in its own attributes and its results in a    *)
(* local of enumerate(); the modules assign no module-level or class-level *)
(* name.  One invocation runs in probeVars, the other waits in `other`.    *)
(***************************************************************************)
\* ssh_enum.py 29-51: enumerate() from its call to its return
SSHEnumerate(port, conn, recv) ==
    LET b == GetBanner(conn, recv)
    IN  [results |-> IF b.escaped = NoExc /\ Truthy(b.ret)
                     THEN [SSHResults(port) EXCEPT !.banner = b.ret,
                                                   !.version = ParseVersion(b.ret)]
                     ELSE SSHResults(port),
         escaped |-> b.escaped]

\* db_enum.py 127-128, 242-243, 340-341 with the try of 130-132: the
\* authentication check that ends every protocol's steps
AuthStep(res, auth) ==
    LET a == CheckAuth(auth)
    IN  IF a.escaped # NoExc THEN StepFailed(res, a.escaped)
        ELSE [results |-> [res EXCEPT !.authentication_required = a.ret],
              escaped |-> NoExc]

\* db_enum.py 119-132
EnumerateMysql(res, conn, recv, auth) ==
    LET b == GetMysqlBanner(conn, recv)
    IN  IF b.escaped # NoExc THEN StepFailed(res, b.escaped)
        ELSE AuthStep(IF Truthy(b.ret)
                      THEN [res EXCEPT !.banner = b.ret,
                                       !.version = ParseMysqlVersion(b.ret)]
                      ELSE res,
                      auth)

\* db_enum.py 235-247 and 332-345: mssql stores the version text as the
\* banner too
EnumerateByLibrary(res, ver, auth) ==
    LET v == GetServerVersion(ver)
    IN  IF v.escaped # NoExc THEN StepFailed(res, v.escaped)
        ELSE AuthStep(IF ~Truthy(v.ret) THEN res
                      ELSE IF res.db_type = "mssql"
                      THEN [res EXCEPT !.version = v.ret, !.banner = v.ret]
                      ELSE [res EXCEPT !.version = v.ret],
                      auth)

\* db_enum.py 59-89: enumerate() from its call to its return
DBEnumerate(port, open, conn, recv, ver, auth) ==
    LET c == CheckPortOpen(open)
        res == DBResults(port)
        accessible == [res EXCEPT !.accessible = TRUE]
    IN  IF c.escaped # NoExc THEN [results |-> res, escaped |-> c.escaped]
        ELSE IF ~c.ret
        THEN [results |-> [res EXCEPT !.error = Msg("Port is not accessible")],
              escaped |-> NoExc]
        ELSE IF res.db_type = "mysql" THEN EnumerateMysql(accessible, conn, recv, auth)
        ELSE IF res.db_type \in {"postgresql", "mssql"}
        THEN EnumerateByLibrary(accessible, ver, auth)
        ELSE [results |-> [accessible EXCEPT !.error = Msg("Unknown database type")],
              escaped |-> NoExc]

\* smb_enum.py 37-55: enumerate() from its call to its return
SMBEnumerate(port, installed, outcome) ==
    IF ~installed
    THEN [results |-> [SMBResults(port) EXCEPT !.error = Msg("smbclient not available")],
          escaped |-> NoExc]
    ELSE [results |-> IF Truthy(EnumerateShares(outcome))
                      THEN [SMBResults(port) EXCEPT !.shares = EnumerateShares(outcome)]
                      ELSE SMBResults(port),
          escaped |-> ToolEscapes(outcome)]

\* the families whose enumerators are interleaved
PairProbes == {p \in Probes : p.family \in {"ssh", "database", "smb"}}

\* what an invocation returns, or lets escape, when nothing else runs
Alone(p) ==
    CASE p.family = "ssh" ->
           {SSHEnumerate(p.port, conn, recv) :
                conn \in ConnectOutcomes(p.reachable), recv \in RecvOutcomes}
      [] p.family = "database" ->
           {DBEnumerate(p.port, open, conn, recv, ver, auth) :
                open \in ConnectOutcomes(p.reachable),
                conn \in ConnectOutcomes(p.reachable),
                recv \in MysqlRecvData \cup RecvFailures,
                ver \in VersionOutcomes, auth \in AuthOutcomes}
      [] p.family = "smb" ->
           {SMBEnumerate(p.port, installed, outcome) :
                installed \in BOOLEAN,
                outcome \in ToolOutcomes(ToolPrints, p.reachable)}

\* every invocation with every result it has alone
AloneResults == UNION {{<<p, r>> : r \in Alone(p)} : p \in PairProbes}

\* no second invocation exists
PairIdle == other = NoContext

\* the locals and attributes of the running invocation
Context ==
    [probe |-> probe, ppc |-> ppc, results |-> results, escaped |-> escaped,
     ops |-> ops, socks |-> socks]


PairInit ==
    /\ ProbeInit
    /\ probe \in PairProbes
    /\ \E p \in PairProbes :
          other = [probe |-> p, ppc |-> "start", results |-> NoResults,
                   escaped |-> NoExc, ops |-> <<>>, socks |-> 0]

\* the scheduler lets the other invocation run
Yield ==
    /\ other # NoContext
    /\ probe' = other.probe
    /\ ppc' = other.ppc
    /\ results' = other.results
    /\ escaped' = other.escaped
    /\ ops' = other.ops
    /\ socks' = other.socks
    /\ other' = Context
    /\ UNCHANGED <<scanVars, dispatchVars, runVars, genVars, toolVars>>

PairNext ==
    \/ SSHStart
    \/ SSHGetBanner
    \/ DBStart
    \/ DBCheckPort
    \/ DBMysqlBanner
    \/ DBCheckAuth
    \/ DBPostgresqlVersion
    \/ DBMssqlInfo
    \/ SMBStart
    \/ SMBShares
    \/ Yield

(***************************************************************************)
(* report_generator: generate_reports and the two report formats.          *)
(***************************************************************************)
\* a dictionary with one more key
Put(d, key, value) == (key :> value) @@ d

\* dict.get(key, default)
Get(d, key, default) == IF key \in DOMAIN d THEN d[key] ELSE default

PortRecords == [port : PortNumbers, state : States]

\* the port lists of the scan data
PortLists == UNION {[1..k -> PortRecords] : k \in 0..MaxEntries}

\* scan data: with a port list, or without the 'ports' key
ScanData == {[target |-> "host"]} \cup {[target |-> "host", ports |-> l] : l \in PortLists}

Formats == {"json", "html"}

\* os.path.join(output_dir, f"{base_filename}.<format>")
ReportPath(format) == IF format = "json" THEN "out/report.json" ELSE "out/report.html"

\* what writing a file can do: the file is written, open() fails, or the
\* content cannot be produced after the file was opened
JsonOutcomes == {"ok", "open_fails", "not_serializable"}
HtmlOutcomes == {"ok", "render_fails", "open_fails", "write_fails"}

\* the exception an outcome raises
FileExc(outcome) ==
    CASE outcome = "ok" -> NoExc
      [] outcome = "open_fails" -> "PermissionError"
      [] outcome = "not_serializable" -> "TypeError"
      [] outcome = "render_fails" -> "jinja2.TemplateError"
      [] OTHER -> "UnicodeEncodeError"

\* report_generator.py 36, 362: the except clause of both generators
ReportClauses == <<"Exception">>

\* a file that was opened for writing and not written to the end
Truncated == [complete |-> FALSE]

\* report_generator.py 29-38: the value returned, the exception that leaves,
\* and the file left behind (no 'file' when open() raised)
GenerateJsonReport(data, outcome) ==
    LET exc == FileExc(outcome)
        out == [ret |-> exc = NoExc, escaped |-> Leaves(exc, ReportClauses)]
    IN  IF outcome = "ok" THEN Put(out, "file", [complete |-> TRUE, content |-> data])
        ELSE IF outcome = "not_serializable" THEN Put(out, "file", Truncated)
        ELSE out

\* report_generator.py 342-349
TemplateData(data) ==
    [target |-> Get(data, "target", "Unknown"),
     total_ports |-> Get(data, "total_ports_scanned", 0),
     open_ports |-> Len(Get(data, "ports", <<>>)),
     ports |-> Get(data, "ports", <<>>)]

\* HTML_TEMPLATE 259-266 and 278-300: the two figures, and the port table
\* with one row per port or the no-data note
Render(template_data) ==
    [total_ports_figure |-> template_data.total_ports,
     open_ports_figure |-> template_data.open_ports,
     rows |-> template_data.ports,
     no_data |-> Len(template_data.ports) = 0]

\* report_generator.py 340-364
GenerateHtmlReport(data, outcome) ==
    LET exc == FileExc(outcome)
        out == [ret |-> exc = NoExc, escaped |-> Leaves(exc, ReportClauses)]
    IN  IF outcome = "ok"
        THEN Put(out, "file", [complete |-> TRUE, content |-> Render(TemplateData(data))])
        ELSE IF outcome = "write_fails" THEN Put(out, "file", Truncated)
        ELSE out

NoData == [none |-> TRUE]

\* generate_reports is not running
GenIdle ==
    /\ gpc = "idle"
    /\ scan_data = NoData
    /\ files = <<>>
    /\ report_paths = <<>>
    /\ gen_ops = <<>>
    /\ gen_escaped = NoExc

GenInit ==
    /\ gpc = "makedirs"
    /\ scan_data \in ScanData
    /\ files = <<>>
    /\ report_paths = <<>>
    /\ gen_ops = <<>>
    /\ gen_escaped = NoExc

\* report_generator.py 385: os.makedirs(output_dir, exist_ok=True), outside
\* every try
GenMakedirs ==
    /\ gpc = "makedirs"
    /\ \E outcome \in {"ok", "open_fails"} :
          /\ gen_ops' = Append(gen_ops, Op("makedirs", outcome))
          /\ gen_escaped' = FileExc(outcome)
          /\ gpc' = IF FileExc(outcome) = NoExc THEN "json" ELSE "done"
    /\ UNCHANGED <<scan_data, files, report_paths>>
    /\ UNCHANGED <<scanVars, probeVars, dispatchVars, runVars, pairVars, toolVars>>

\* the effect of one generator's call on generate_reports: report_generator.py
\* 394-395 and 398-399
Generated(format, g) ==
    /\ files' = IF "file" \in DOMAIN g THEN Put(files, format, g.file) ELSE files
    /\ report_paths' = IF g.escaped = NoExc /\ g.ret
                       THEN Put(report_paths, format, ReportPath(format))
                       ELSE report_paths
    /\ gen_escaped' = g.escaped

GenJson ==
    /\ gpc = "json"
    /\ \E outcome \in JsonOutcomes :
          /\ gen_ops' = Append(gen_ops, Op("json", outcome))
          /\ Generated("json", GenerateJsonReport(scan_data, outcome))
    /\ gpc' = IF gen_escaped' = NoExc THEN "html" ELSE "done"
    /\ UNCHANGED scan_data
    /\ UNCHANGED <<scanVars, probeVars, dispatchVars, runVars, pairVars, toolVars>>

\* report_generator.py 398-401
GenHtml ==
    /\ gpc = "html"
    /\ \E outcome \in HtmlOutcomes :
          /\ gen_ops' = Append(gen_ops, Op("html", outcome))
          /\ Generated("html", GenerateHtmlReport(scan_data, outcome))
    /\ gpc' = "done"
    /\ UNCHANGED scan_data
    /\ UNCHANGED <<scanVars, probeVars, dispatchVars, runVars, pairVars, toolVars>>

GenNext ==
    \/ GenMakedirs
    \/ GenJson
    \/ GenHtml

(***************************************************************************)
(* One tool helper called on its own: the tool, what the tool does, and    *)
(* what the probe result holds for the tool afterwards.                    *)
(***************************************************************************)
Tools == {"feroxbuster", "sublist3r", "smbclient", "dig", "nslookup"}

\* what the tool can print
ToolOutputs(tool) ==
    CASE tool = "smbclient" -> ToolPrints
      [] tool = "dig" -> DigOutputs
      [] tool = "nslookup" -> NslookupOutputs
      [] OTHER -> ToolText

\* the calls: nslookup is called once for a record type
ToolCalls ==
    UNION {[tool : {t},
            record_type : IF t = "nslookup" THEN Range(RecordTypes) ELSE {"none"},
            outcome : ToolOutcomes(ToolOutputs(t), TRUE)] : t \in Tools}

NoToolCall == [tool |-> "none"]

ToolIdle ==
    /\ tool_call = NoToolCall
    /\ tool_output = None

ToolInit ==
    /\ tool_call \in ToolCalls
    /\ tool_output = None

\* a result field as the caller of a helper leaves it: set to what the
\* helper returned when that is truthy (web_enum.py 192-199, smb_enum.py
\* 53-55, dns_enum.py 47-49 and 105-107), left alone otherwise
FieldAfter(ret) == [attached |-> Truthy(ret), value |-> IF Truthy(ret) THEN ret ELSE Null]

\* the result field of the tool after the call
ResultAfter(call) ==
    CASE call.tool = "feroxbuster" -> FieldAfter(FeroxbusterOutput(call.outcome))
      [] call.tool = "sublist3r" -> FieldAfter(Sublist3rOutput(call.outcome))
      [] call.tool = "smbclient" -> FieldAfter(EnumerateShares(call.outcome))
      [] call.tool = "dig" -> FieldAfter(AttemptZoneTransfer(call.outcome))
      [] call.tool = "nslookup" ->
           LET records == QueryRecord(NoRecords, call.record_type, call.outcome)
           IN  FieldAfter(IF call.record_type \in DOMAIN records
                          THEN records[call.record_type] ELSE Null)

ToolHelperReturns ==
    /\ tool_call # NoToolCall
    /\ tool_output = None
    /\ tool_output' = ResultAfter(tool_call)
    /\ UNCHANGED <<tool_call, scanVars, probeVars, dispatchVars, runVars, pairVars, genVars>>

ToolNext == ToolHelperReturns

(***************************************************************************)
(* Specifications: the port scan, and one probe invocation.                *)
(***************************************************************************)
Init == ScanInit /\ ProbeIdle /\ DispatchIdle /\ RunIdle /\ PairIdle /\ GenIdle /\ ToolIdle

Next == ScanNext

Spec == Init /\ [][Next]_vars

ProbeSpecInit == ScanInit /\ ProbeInit /\ DispatchIdle /\ RunIdle /\ PairIdle /\ GenIdle /\ ToolIdle

ProbeSpecNext == ProbeNext

ProbeSpec == ProbeSpecInit /\ [][ProbeSpecNext]_vars

\* the dispatch stage after a finished port scan
DispatchSpecInit == DispatchInit /\ ProbeIdle /\ RunIdle /\ PairIdle /\ GenIdle /\ ToolIdle

DispatchSpec == DispatchSpecInit /\ [][DispatchNext]_vars

\* one direct call of run_command
RunSpecInit == ScanInit /\ ProbeIdle /\ DispatchIdle /\ RunInit /\ PairIdle /\ GenIdle /\ ToolIdle

RunSpecNext == RunCommandReturns

RunSpec == RunSpecInit /\ [][RunSpecNext]_vars

\* two probe invocations, interleaved step by step
PairSpecInit == ScanInit /\ PairInit /\ DispatchIdle /\ RunIdle /\ GenIdle /\ ToolIdle

PairSpec == PairSpecInit /\ [][PairNext]_vars

\* one call of a tool helper
ToolSpecInit == ScanInit /\ ProbeIdle /\ DispatchIdle /\ RunIdle /\ PairIdle /\ GenIdle /\ ToolInit

ToolSpec == ToolSpecInit /\ [][ToolNext]_vars

\* one call of generate_reports
GenSpecInit == ScanInit /\ ProbeIdle /\ DispatchIdle /\ RunIdle /\ PairIdle /\ GenInit /\ ToolIdle

GenSpec == GenSpecInit /\ [][GenNext]_vars

\* the port scan with its environment; only scan_target's own steps are
\* certain to be taken
ScanEnvSpec == Init /\ [][ScanEnvNext]_vars /\ WF_vars(ScanSteps)

(***************************************************************************)
(* Properties of scan_target.                                              *)
(***************************************************************************)
Records(r) == Range(r.ports)

SameKey(a, b) == a.port = b.port /\ a.protocol = b.protocol

SortedByPort(ps) == \A i, j \in 1..Len(ps) : i < j => ps[i].port <= ps[j].port

NoOpenPort(r) == \A p \in Records(r) : p.state # "open"

DeepCalls == {i \in 1..Len(engine_calls) : engine_calls[i].profile = "deep"}

\* C1: when Phase 1 succeeds with at least one open port and the Phase-2
\* scan fails, every Phase-1 port record is in the returned 'ports'.
C1_Phase2FailureKeepsPhase1Ports ==
    (/\ pc = "done"
     /\ engine_calls[1].status = "ok"
     /\ ~NoOpenPort(quick_results)
     /\ Len(engine_calls) = 2
     /\ engine_calls[2].status = "raised")
    => \A p \in Records(quick_results) : \E q \in Records(returned) : SameKey(p, q)

\* C2: on every return path the returned port list is sorted ascending by
\* port number and holds no two records with the same (port, protocol).
C2_ReturnedSortedNoDuplicates ==
    pc = "done" => SortedByPort(returned.ports) /\ DistinctKeys(returned.ports)

\* C3: when the Phase-1 result holds no port in state 'open', the version
\* scan is never invoked and scan_target returns exactly the Phase-1 result,
\* adding no error entry to it.
C3_NoOpenPortSkipsPhase2 ==
    (quick_results # None /\ NoOpenPort(quick_results))
    => /\ DeepCalls = {}
       /\ version_results = None
       /\ pc = "done" =>
            /\ returned = quick_results
            /\ (engine_calls[1].status # "raised" => ~HasError(returned))

C3_Witness ==
    /\ pc = "done"
    /\ engine_calls[1].status = "ok"
    /\ quick_results.ports # <<>>
    /\ NoOpenPort(quick_results)
    /\ returned = quick_results

\* C4: when the engine fails to run or yields unreadable output at Phase 1,
\* scan_target returns a result with an 'error' entry and Phase 2 is not
\* invoked.
C4_Phase1FailureIsDiscoveryError ==
    (pc = "done" /\ engine_calls[1].status \in {"raised", "unreadable"})
    => HasError(returned) /\ DeepCalls = {}

\* C5: the ports handed to the version scan are exactly the ports whose
\* Phase-1 state is 'open'.
C5_Phase2GetsExactlyOpenPorts ==
    \A i \in DeepCalls :
        Range(engine_calls[i].ports)
            = {p.port : p \in {q \in Records(quick_results) : q.state = "open"}}

C5_Witness ==
    /\ DeepCalls # {}
    /\ \E p, q \in Records(quick_results) : p.state = "open" /\ q.state = "filtered"
    /\ \E p \in Records(quick_results) : p.state = "closed"

\* C6: every port record Phase 1 reported, closed and filtered ones included,
\* is in the list returned after Phase 2 with the same port, protocol and
\* state (stated for a Phase 2 that succeeds and reports every open Phase-1
\* record unchanged).
C6_Phase1RecordsSurvivePhase2 ==
    (/\ pc = "done"
     /\ Len(engine_calls) = 2
     /\ engine_calls[1].status = "ok"
     /\ engine_calls[2].status = "ok"
     /\ \A p \in Records(quick_results) :
            p.state = "open" => p \in Records(version_results))
    => \A p \in Records(quick_results) :
          \E q \in Records(returned) : SameKey(p, q) /\ p.state = q.state

\* C7: the engine is invoked at most twice, the quick profile first and the
\* deep profile second; the deep invocation starts only after the quick one
\* has returned and its result has been parsed, and no two invocations run
\* at the same time.
C7_PhasesSequential ==
    /\ Len(engine_calls) <= 2
    /\ \A i \in 1..Len(engine_calls) :
          /\ engine_calls[i].profile = (IF i = 1 THEN "quick" ELSE "deep")
          /\ i < Len(engine_calls) => engine_calls[i].status # "running"
    /\ DeepCalls # {} => quick_results # None

C7_Witness ==
    /\ Len(engine_calls) = 2
    /\ engine_calls[2].status = "running"
    /\ engine_calls[1].status = "ok"

(***************************************************************************)
(* Properties of the probes.                                               *)
(***************************************************************************)
\* the result carries an error: a non-null 'error', or for the web probe a
\* non-empty 'errors' list
HasProbeError(r) ==
    IF "error" \in DOMAIN r THEN r.error # Null ELSE r.errors # <<>>

\* the dictionary enumerate() starts from
InitialResults(p) ==
    CASE p.family = "ssh" -> SSHResults(p.port)
      [] p.family = "ftp" -> FTPResults(p.port)
      [] p.family = "database" -> DBResults(p.port)
      [] p.family = "dns" -> DNSResults(p.port)
      [] p.family = "smb" -> SMBResults(p.port)
      [] p.family = "web" -> WebResults(p.port)

\* every field but the error holds what enumerate() started it with
DataFieldsDefault(r, p) ==
    IF "error" \in DOMAIN r
    THEN [r EXCEPT !.error = Null] = InitialResults(p)
    ELSE [r EXCEPT !.errors = <<>>] = InitialResults(p)

OutcomeSeen(kinds) == \E i \in 1..Len(ops) : ops[i].outcome \in kinds

\* C8: a probe of an unreachable target:port returns a result with a
\* non-null error and every data field at its default.
C8_UnreachableGivesError ==
    (ppc = "done" /\ ~probe.reachable)
    => /\ escaped = NoExc
       /\ HasProbeError(results)
       /\ DataFieldsDefault(results, probe)

\* C9: a probe whose socket or tool operation timed out returns normally
\* with the timeout recorded in its error field.
C9_TimeoutGivesError ==
    (ppc = "done" /\ OutcomeSeen({"timeout"}))
    => escaped = NoExc /\ HasProbeError(results)

\* C10: whatever the socket, library or tool operations do, enumerate()
\* returns a result dictionary and no exception leaves the probe.
C10_NoExceptionEscapes ==
    /\ escaped = NoExc
    /\ ppc = "done" => results # NoResults /\ results.port = probe.port

C10_Witness ==
    /\ ppc = "done"
    /\ results # NoResults
    /\ OutcomeSeen({"refused", "timeout", "error", "not_found", "other_error"})
    /\ escaped = NoExc

(***************************************************************************)
(* Properties of multi-step probes and of tool-based probes.               *)
(***************************************************************************)
\* the last operation the probe performed
LastOp(log) == log[Len(log)]

\* C11: when the database probe holds a banner and the authentication check
\* that follows fails (the library call raises something other than its own
\* "access denied" error), the result has a non-null error and keeps the
\* banner and version collected before.
C11_LaterFailureKeepsEarlierData ==
    [][(/\ ppc \in {"db_mysql_auth", "db_mssql_auth"}
        /\ ppc' = "done"
        /\ Truthy(results.banner)
        /\ LastOp(ops').outcome = "other_error")
       => /\ results'.error # Null
          /\ results'.banner = results.banner
          /\ results'.version = results.version]_vars

\* the optional tools and the availability test each probe makes
OptionalTools == {"smbclient", "feroxbuster", "sublist3r"}

WhichOp(tool) ==
    CASE tool = "smbclient" -> "which smbclient"
      [] tool = "feroxbuster" -> "which feroxbuster"
      [] tool = "sublist3r" -> "which sublist3r"

\* check_tool_installed(tool) answered False / the tool was run
ToolMissing(tool) == \E i \in 1..Len(ops) : ops[i] = Op(WhichOp(tool), "missing")
ToolInvoked(tool) == \E i \in 1..Len(ops) : ops[i].op = tool

\* the result field the tool fills
ToolField(r, tool) ==
    CASE tool = "smbclient" -> r.shares
      [] tool = "feroxbuster" -> r.feroxbuster_output
      [] tool = "sublist3r" -> r.sublist3r_output

\* C12: when an optional tool is not installed the probe returns normally,
\* never runs the tool, leaves the tool's field absent or empty, and the
\* result carries a note that the tool is unavailable.
C12_MissingToolNoted ==
    \A tool \in OptionalTools :
        (ppc = "done" /\ ToolMissing(tool))
        => /\ escaped = NoExc
           /\ ~ToolInvoked(tool)
           /\ ToolField(results, tool) \in {<<>>, Absent, Null}
           /\ HasProbeError(results)

\* the tools the SMB and DNS probes run, and the ways a run fails
ProbeTools == {"smbclient", "dig", "nslookup"}
FailedRuns == {"exit_nonzero", "timeout", "not_found", "error"}

ToolFailed(tool) == \E i \in 1..Len(ops) : ops[i].op = tool /\ ops[i].outcome \in FailedRuns

\* C13: when smbclient, dig or nslookup is run and fails (non-zero exit,
\* timeout, cannot be started), the result carries a non-null error, which
\* tells it from a run that succeeded and found nothing.
C13_ToolFailureMarked ==
    \A tool \in ProbeTools :
        (ppc = "done" /\ ToolFailed(tool)) => HasProbeError(results)

(***************************************************************************)
(* Properties of termination and cancellation.                             *)
(***************************************************************************)
\* C16: every blocking operation has a timeout, so a call of scan_target
\* eventually returns (or is ended by the user) even when the engine never
\* answers.
C16_ScanTargetReturns == <>(pc \in {"done", "interrupted"})

\* C20: when the user interrupts the engine, scan_target still returns the
\* partial result assembled so far; interrupted in Phase 2, it returns the
\* Phase-1 port list.
C20_InterruptKeepsPartialResult ==
    pc = "interrupted"
    => /\ returned # None
       /\ quick_results # None
          => \A p \in Records(quick_results) : \E q \in Records(returned) : SameKey(p, q)

\* C17: run_command never raises; a tool that exceeds the timeout is killed
\* and the call returns (-1, "", a timeout message); a tool that is missing
\* or cannot be started gives (-1, "", a message); otherwise the call
\* returns the tool's exit code, stdout and stderr.
C17_RunCommandTriple ==
    run_result # None
    => /\ run_result.escaped = NoExc
       /\ run_call.kind = "timeout"
          => /\ run_result.returncode = -1
             /\ run_result.stdout = <<>>
             /\ run_result.stderr = Msg("Command timed out")
             /\ ChildAfter(run_call) = "killed"
       /\ run_call.kind \in {"not_found", "error"}
          => /\ run_result.returncode = -1
             /\ run_result.stdout = <<>>
             /\ Truthy(run_result.stderr)
       /\ run_call.kind = "exit"
          => /\ run_result.returncode = run_call.returncode
             /\ run_result.stdout = run_call.stdout
             /\ run_result.stderr = Msg("stderr")

C17_Witness ==
    /\ run_call.kind = "timeout"
    /\ run_result # None
    /\ run_result.returncode = -1

(***************************************************************************)
(* Properties of a probe's sockets and connection attempts.                *)
(***************************************************************************)
\* C18: when the probe has returned, every socket it opened in _get_banner,
\* _check_port_open or _get_mysql_banner has been closed, whether the
\* helper succeeded, failed to connect, timed out or failed to receive.
C18_SocketsReleased == ppc = "done" => socks = 0

\* the operations that open a connection to the target
ConnectionOps == {"connect", "connect_ex", "ftp_connect", "library_connect", "requests.head"}

\* the outcomes with which a connection or a collection step fails
FailedSteps ==
    {"refused", "no_route", "timeout", "error", "connection_error", "ssl_error",
     "library_error", "other_error", "failed"}

\* C19: ConnectFailed and CollectionFailed are terminal: once a connection
\* attempt or a collection step of the probe has failed, the probe makes no
\* further connection attempt (no retry, no fallback request).
C19_FailureIsTerminal ==
    \A i, j \in 1..Len(ops) :
        (i < j /\ ops[i].op \in ConnectionOps \cup {"recv", "ftp_login"}
               /\ ops[i].outcome \in FailedSteps)
        => ops[j].op \notin ConnectionOps

(***************************************************************************)
(* Properties of the dispatch stage.                                       *)
(***************************************************************************)
Entries(rep) == Range(rep.probes)

IsPrefix(a, b) == Len(a) <= Len(b) /\ SubSeq(b, 1, Len(a)) = a

\* C14: when exactly one of the N dispatched probes fails the stage still
\* returns a report with N entries, the failing one with a non-null error;
\* the other entries are what they would be without the failure: every probe
\* starts from a fresh state and merging a result leaves the entries
\* already merged as they are.
C14_OneFailureKeepsOthers ==
    [][/\ dpc # "idle" => IsPrefix(report.probes, report'.probes)
       /\ (dpc = "select" /\ dpc' = "probing")
          => ppc' = "start" /\ results' = NoResults /\ ops' = <<>> /\ escaped' = NoExc
       /\ (dpc' = "done" /\ Cardinality({e \in Entries(report') : e.failed}) = 1)
          => /\ Len(report'.probes)
                   = Cardinality({i \in 1..Len(report'.ports) : Dispatched(report'.ports[i])})
             /\ \A e \in Entries(report') : e.failed => HasProbeError(e.result)]_vars

\* C15: a port record that is closed or filtered gets no probe and no entry
\* in the probe map, and stays in the report's port list.
C15_OnlyOpenPortsProbed ==
    dpc = "done"
    => \A rec \in Records(quick_results) \cup Range(report.ports) :
          rec.state # "open"
          => /\ \A e \in Entries(report) : e.port # rec.port
             /\ \E q \in Range(report.ports) : SameKey(rec, q) /\ q.state = rec.state

(***************************************************************************)
(* Properties of the probes' results.                                      *)
(***************************************************************************)
\* outcomes of an operation that did what it was asked
GoodOutcomes == {"ok", "ok_no_headers", "data", "connected", "found", "exit", "230"}

\* the probe knew its protocol and every operation it made succeeded
Succeeded ==
    /\ ops # <<>>
    /\ \A i \in 1..Len(ops) : ops[i].outcome \in GoodOutcomes
    /\ probe.family = "database" => DetectDbType(probe.port) # "unknown"

\* C21: whatever the family, the result a probe returns holds the port it
\* was given, a service or protocol tag, and one 'error' field, which is
\* null when the probe succeeded.
C21_UniformResultShape ==
    (ppc = "done" /\ escaped = NoExc)
    => /\ results.port = probe.port
       /\ "service" \in DOMAIN results \/ "protocol" \in DOMAIN results
       /\ "error" \in DOMAIN results
       /\ Succeeded => results.error = Null


(***************************************************************************)
(* Two interleaved probe invocations                                       *)
(***************************************************************************)
\* C22: probes share no mutable state.  Whatever the interleaving of two
\* invocations, a step of the running invocation changes neither the
\* waiting invocation nor anything the port scanner reads, and what an
\* invocation returns (or lets escape) is something it returns when it runs
\* alone.
C22_ProbesShareNothing ==
    /\ [](ppc = "done" => <<probe, [results |-> results, escaped |-> escaped]>> \in AloneResults)
    /\ [][Yield \/ (other' = other /\ UNCHANGED scanVars)]_vars

\* the database probe has returned with its authentication finding while
\* the SMB probe is between two of its steps
C22_Witness ==
    /\ ppc = "done"
    /\ probe.family = "database"
    /\ results.authentication_required # Null
    /\ other # NoContext
    /\ other.ppc = "smb_shares"

(***************************************************************************)
(* External tools: what counts as a successful run                         *)
(***************************************************************************)
ExitedZero == tool_call.outcome.kind = "exit" /\ tool_call.outcome.returncode = 0
Printed == tool_call.outcome.kind = "exit" /\ tool_call.outcome.stdout # <<>>

\* what the probe makes of the output of a successful run: the share names
\* of smbclient's listing, the lines of nslookup's answer that belong to the
\* record type, the output itself for the other tools
Usable(call) ==
    CASE call.tool = "smbclient" -> ShareNames(call.outcome.stdout, FALSE)
      [] call.tool = "nslookup" -> ParseNslookupOutput(call.outcome.stdout, call.record_type)
      [] OTHER -> call.outcome.stdout

\* the run counted as a success: the result holds what the output gives
CountedAsSuccess ==
    IF Usable(tool_call) = <<>> THEN ~tool_output.attached
    ELSE tool_output.attached /\ tool_output.value = Usable(tool_call)

\* C23 as stated: a tool's run counts as success when it exits with 0;
\* sublist3r's also when it printed something and exited non-zero; for
\* feroxbuster, smbclient, dig and nslookup a non-zero exit code leaves no
\* output in the probe result.
C23_ExitCodeDecides ==
    (tool_call # NoToolCall /\ tool_output # None)
    => /\ (ExitedZero /\ Printed) => CountedAsSuccess
       /\ (tool_call.tool = "sublist3r" /\ Printed) => CountedAsSuccess
       /\ (tool_call.tool # "sublist3r" /\ ~ExitedZero) => ~tool_output.attached

\* C23, amended: as stated, except that dig's run does not count as a
\* success, and leaves no output, when its output reports 'Transfer failed'
\* although it exited with 0.
C23_ExitCodeDecidesButForRefusedTransfer ==
    (tool_call # NoToolCall /\ tool_output # None)
    => /\ (ExitedZero /\ Printed)
          => IF tool_call.tool = "dig" /\ TransferFailed(tool_call.outcome.stdout)
             THEN ~tool_output.attached
             ELSE CountedAsSuccess
       /\ (tool_call.tool = "sublist3r" /\ Printed) => CountedAsSuccess
       /\ (tool_call.tool # "sublist3r" /\ ~ExitedZero) => ~tool_output.attached

\* sublist3r exited non-zero, had printed, and its output is in the result
C23_Witness ==
    /\ tool_call # NoToolCall
    /\ tool_output # None
    /\ tool_call.tool = "sublist3r"
    /\ Printed
    /\ ~ExitedZero
    /\ tool_output.attached

(***************************************************************************)
(* enumerate_web with and without the external tools                       *)
(***************************************************************************)
\* the requests.head calls of the probe, in order
HeadRequests == SelectSeq(ops, LAMBDA o : o.op = "requests.head")

\* the result without what the tools added
WithoutToolOutput(r) == [r EXCEPT !.feroxbuster_output = Absent, !.sublist3r_output = Absent]

\* the result of WebEnumerator.enumerate() for the requests that were made
AfterHeaders ==
    LET h == GetHeaders(WebProtocol(probe.port), HeadRequests[1].outcome,
                        HeadRequests[Len(HeadRequests)].outcome)
    IN  IF Truthy(h.ret) THEN [WebResults(probe.port) EXCEPT !.headers = h.ret]
        ELSE WebResults(probe.port)

WebToolOps == {"which feroxbuster", "feroxbuster", "which sublist3r", "sublist3r"}

\* C24: with run_tools false enumerate_web invokes neither feroxbuster nor
\* sublist3r and its result has no tool-output field; with the flag on or
\* off, every other field is what the header fetch alone gives for the
\* requests that were made.
C24_RunToolsOffOnlySkipsTools ==
    (probe.family = "web" /\ ppc = "done" /\ escaped = NoExc)
    => /\ WithoutToolOutput(results) = AfterHeaders
       /\ ~probe.run_tools =>
             /\ \A i \in 1..Len(ops) : ops[i].op \notin WebToolOps
             /\ results.feroxbuster_output = Absent
             /\ results.sublist3r_output = Absent

\* enumerate_web returned the headers it fetched, with the tools disabled
C24_Witness ==
    /\ probe.family = "web"
    /\ ~probe.run_tools
    /\ ppc = "done"
    /\ escaped = NoExc
    /\ results.headers # <<>>

(***************************************************************************)
(* The SSH probe's version                                                 *)
(***************************************************************************)
\* position of the second hyphen of a text, 0 when it has fewer than two
SecondHyphen(t) ==
    IF Find(t, Hyphen, 1) = 0 THEN 0 ELSE Find(t, Hyphen, Find(t, Hyphen, 1) + 1)

\* C25: for a banner 'SSH-<proto>-<software...>' the SSH probe's version
\* is everything after the second hyphen, later hyphens included; for any
\* other non-empty banner it is the whole banner; without a banner the
\* version stays null.
C25_VersionFromBanner ==
    (probe.family = "ssh" /\ ppc = "done" /\ escaped = NoExc)
    => IF results.banner = Null THEN results.version = Null
       ELSE IF StartsWith(results.banner, SSHPrefix) /\ SecondHyphen(results.banner) > 0
       THEN results.version = SubSeq(results.banner, SecondHyphen(results.banner) + 1,
                                     Len(results.banner))
       ELSE results.version = results.banner

\* the banner SSH-2-O-u gave the version O-u
C25_Witness ==
    /\ probe.family = "ssh"
    /\ ppc = "done"
    /\ results.banner = <<"S", "S", "H", "-", "2", "-", "O", "-", "u">>
    /\ results.version = <<"O", "-", "u">>

(***************************************************************************)
(* Script output in the port records                                       *)
(***************************************************************************)
\* the deep invocation of the engine that returned, if there is one
ReturnedDeepCalls ==
    {i \in DeepCalls : engine_calls[i].status \in {"ok", "unreadable"}}

\* C26: script output is attached by the deep scan only.  No Phase-1 port
\* record has a 'scripts' field, and a Phase-2 port record has one exactly
\* when the engine reported script output for its port.
C26_ScriptsOnlyFromDeepScan ==
    /\ quick_results # None =>
          \A p \in Records(quick_results) : "scripts" \notin DOMAIN p
    /\ (version_results # None /\ ReturnedDeepCalls # {}) =>
          \A p \in Records(version_results) : \A i \in ReturnedDeepCalls :
              "scripts" \in DOMAIN p <=> p.port \in engine_calls[i].scripts

\* the deep scan returned two records, one with script output and one
\* without
C26_Witness ==
    /\ pc = "done"
    /\ ReturnedDeepCalls # {}
    /\ \E p, q \in Records(returned) :
          "scripts" \in DOMAIN p /\ "scripts" \notin DOMAIN q

(***************************************************************************)
(* generate_reports                                                        *)
(***************************************************************************)
Attempted(format) == \E i \in 1..Len(gen_ops) : gen_ops[i].op = format

\* the report of a format is on disk, written to the end
Written(format) == format \in DOMAIN files /\ files[format].complete

\* C27: generate_reports attempts both formats independently, returns a
\* path for exactly the formats whose report was generated (none when both
\* failed), and never raises for a write or rendering error.
C27_BothFormatsAttempted ==
    gpc = "done"
    => /\ gen_escaped = NoExc
       /\ \A f \in Formats : Attempted(f)
       /\ \A f \in Formats : f \in DOMAIN report_paths <=> Written(f)
       /\ \A f \in DOMAIN report_paths : report_paths[f] = ReportPath(f)

(***************************************************************************)
(* The figures of the HTML report                                          *)
(***************************************************************************)
\* the port list generate_html_report was handed
HandedPorts == Get(scan_data, "ports", <<>>)

\* C29: the 'Open Ports' figure of the HTML report is the number of port
\* records whose state is 'open', whatever port list generate_html_report
\* was handed.
C29_OpenPortsFigureCountsOpen ==
    Written("html")
    => files.html.content.open_ports_figure
          = Cardinality({i \in 1..Len(HandedPorts) : HandedPorts[i].state = "open"})

(***************************************************************************)
(* The database probe's choice of protocol                                 *)
(***************************************************************************)
\* the first step of a protocol's enumeration
FirstStep(port) ==
    CASE port = 3306 -> "connect"
      [] port \in {5432, 1433} -> "library_connect"
      [] OTHER -> "none"

\* C28: the database probe chooses its protocol from the port alone (3306,
\* 5432, 1433).  On another port that accepts the connection it reports
\* accessible with the error 'Unknown database type' and null version,
\* banner and authentication_required; on a port that does not accept the
\* connection it reports not accessible with the error 'Port is not
\* accessible' and runs no protocol-specific step.
C28_ProtocolFromPortAlone ==
    (probe.family = "database" /\ ppc = "done" /\ escaped = NoExc)
    => /\ ops[1].op = "connect_ex"
       /\ IF ops[1].outcome # "ok"
          THEN /\ results.accessible = FALSE
               /\ results.error = Msg("Port is not accessible")
               /\ Len(ops) = 1
          ELSE /\ results.accessible = TRUE
               /\ IF FirstStep(probe.port) = "none"
                  THEN /\ results.error = Msg("Unknown database type")
                       /\ results.version = Null
                       /\ results.banner = Null
                       /\ results.authentication_required = Null
                       /\ Len(ops) = 1
                  ELSE /\ Len(ops) > 1
                       /\ ops[2].op = FirstStep(probe.port)
                       /\ results.error # Msg("Unknown database type")

\* port 27017 accepted the connection and the probe reported the unknown
\* type
C28_Witness ==
    /\ probe.family = "database"
    /\ probe.port = 27017
    /\ ppc = "done"
    /\ results.accessible = TRUE
    /\ results.error = Msg("Unknown database type")

(***************************************************************************)
(* The SMB probe's share names                                             *)
(***************************************************************************)
\* index of the first line that holds the 'Sharename' header, 0 if none
RECURSIVE HeaderAt(_, _)
HeaderAt(lines, from) ==
    IF from > Len(lines) THEN 0
    ELSE IF Contains(lines[from], "Sharename") THEN from
    ELSE HeaderAt(lines, from + 1)

\* index of the first empty line after from, Len + 1 if none
RECURSIVE TableEnd(_, _)
TableEnd(lines, from) ==
    IF from > Len(lines) THEN Len(lines) + 1
    ELSE IF lines[from] = <<>> THEN from
    ELSE TableEnd(lines, from + 1)

\* the first words of the rows of the share table: the lines between the
\* header and the empty line that ends the table
TableNames(lines) ==
    IF HeaderAt(lines, 1) = 0 THEN {}
    ELSE {Head(lines[i]) : i \in (HeaderAt(lines, 1) + 1)..(TableEnd(lines, HeaderAt(lines, 1)) - 1)}

\* the shares of the probe result after the call
SharesAfter == IF tool_output.attached THEN tool_output.value ELSE <<>>

\* the lines smbclient printed
Listing == tool_call.outcome.stdout

\* whether the words of a occur in that order among the first words of b
RECURSIVE InOrder(_, _)
InOrder(a, b) ==
    IF a = <<>> THEN TRUE
    ELSE IF b = <<>> THEN FALSE
    ELSE IF Head(b) # <<>> /\ Head(a) = Head(Head(b)) THEN InOrder(Tail(a), Tail(b))
    ELSE InOrder(a, Tail(b))

\* C30: the SMB probe's 'shares' holds only names taken from the share
\* table of smbclient's listing (between the 'Sharename' header and the end
\* of that table), in the order listed, never IPC$ or print$ and never a
\* word of a later section; when no name qualifies it stays the empty list.
C30_SharesOnlyFromShareTable ==
    (tool_call.tool = "smbclient" /\ tool_output # None)
    => /\ \A i \in 1..Len(SharesAfter) :
             /\ SharesAfter[i] \in TableNames(Listing)
             /\ SharesAfter[i] \notin SystemShares
       /\ InOrder(SharesAfter, Listing)
       /\ (TableNames(Listing) \ SystemShares = {}) => SharesAfter = <<>>
====
